---- MODULE Spec2Model ----
(***************************************************************************)
(* Model of the LeBonCoin deal monitor: the deal classifier of             *)
(* market_analyzer.py, the interactive bot of discord_bot.py (do_check,    *)
(* monitor_loop and the profile commands) and the batch monitor of         *)
(* monitor.py (process_search).                                            *)
(*                                                                         *)
(* Money is in whole euros.  Python's None is the empty sequence and a     *)
(* present value v is <<v>>, so that optional numbers stay comparable.     *)
(***************************************************************************)
EXTENDS Integers, Sequences, FiniteSets

VARIABLES
    ad_price,       \* analyze_deal: the asking price passed in
    market_price,   \* analyze_deal: the estimate passed in (None or <<m>>)
    sources,        \* analyze_deal: the source list passed in
    analysis,       \* None before the call, <<MarketAnalysis>> after it
    ads,            \* the marketplace: listing id i is ads[i], oldest first
    searches,       \* data/searches.json "searches": id -> [active]
    next_id,        \* data/searches.json "next_id"
    seen,           \* data/seen_<id>.json: id -> set of listing ids
    task,           \* the bot's coroutines: local variables and await point
                    \* (inactive_at_fetch: the store said "inactive" when
                    \* the coroutine fetched for the profile)
    mon,            \* the monitor.py process: local variables and position
    notified,       \* history: <<profile, listing>> individually notified
    renotified,     \* history: <<profile, listing>> notified more than once
    lastRun,        \* history: id -> the last run of the profile, if it
                    \* returned normally: what it fetched and found new
    seen_file,      \* load_seen_ads: what is on disk at data/seen_<id>.json
    load_result,    \* None before the call, <<outcome of load_seen_ads>> after
    smp,            \* a call of search_market_price: its local variables and
                    \* its position
    cat,            \* a call of the catalog matcher or of the local catalog
                    \* lookup: its arguments and its result
    user_wizards,   \* discord_bot.py user_wizards: user -> [step, data]
    last_message,   \* history: the last message on_message handled
    environ,        \* os.environ: key -> value
    dotenv,         \* a call of load_dotenv: the file, override, the result
    cycle           \* monitor.py main: the totals of the cycle and what it
                    \* reports; history: the notification attempts

dealVars == <<ad_price, market_price, sources, analysis>>

botVars ==
    <<ads, searches, next_id, seen, task, mon, notified, renotified, lastRun>>

fileVars == <<seen_file, load_result>>

estVars == <<smp, cat>>

uiVars == <<user_wizards, last_message, environ, dotenv>>

vars == <<ad_price, market_price, sources, analysis,
          ads, searches, next_id, seen, task, mon, notified, renotified,
          lastRun, seen_file, load_result, smp, cat,
          user_wizards, last_message, environ, dotenv, cycle>>

None == <<>>

Some(v) == <<v>>

Val(o) == o[1]

Max(a, b) == IF a >= b THEN a ELSE b

\* Mutant: the slice [:5] is not taken (the whole list is walked).
Min_no_cap(a, b) == b

Min(a, b) == IF a <= b THEN a ELSE b

(***************************************************************************)
(* Bounds of the price grid the classifier is exercised on: the multiples  *)
(* of PriceStep up to MaxGrid * PriceStep, each with its two neighbours,   *)
(* so that every threshold of the classifier has a point on it, one below  *)
(* and one above.                                                          *)
(***************************************************************************)
PriceStep == 100

MaxGrid == 45

Prices == {g * PriceStep + d : g \in 0..MaxGrid, d \in -1..1}

SourceLists == {<<>>, <<"url1">>, <<"url1", "url2">>}

(***************************************************************************)
(* market_analyzer.py configuration.  The two ratios are floats in the     *)
(* source (0.60 and 2.0); they are kept here in hundredths and every       *)
(* comparison that uses them is scaled by 100, which is exact on whole     *)
(* euros.                                                                  *)
(***************************************************************************)
PROFIT_MARGIN_PERCENT == 60

PROFIT_MARGIN_FIXED == 1000

MAX_PROFIT_PERCENT == 200

(***************************************************************************)
(* analyze_deal(ad_price, market_price, sources) -> MarketAnalysis.        *)
(* min_required_profit and profit_ratio are compared in hundredths:        *)
(*   potential_profit >= max(0.60 * ad_price, 1000)                        *)
(*     <=>  100 * potential_profit >= Max(60 * ad_price, 100 * 1000)       *)
(*   profit_ratio <= 2.0, with profit_ratio = 0 when ad_price <= 0         *)
(*     <=>  ad_price > 0  =>  100 * potential_profit <= 200 * ad_price     *)
(***************************************************************************)
\* Mutant: only the fixed margin is required.
min_required_profit_fixed_only(a) == PROFIT_MARGIN_FIXED * 100

min_required_profit_x100(a) ==
    Max(PROFIT_MARGIN_PERCENT * a, PROFIT_MARGIN_FIXED * 100)

\* Mutant: the anti-false-positive cap is not applied.
is_realistic_no_cap(a, potential_profit) == TRUE

is_realistic(a, potential_profit) ==
    IF a > 0 THEN 100 * potential_profit <= MAX_PROFIT_PERCENT * a
             ELSE 0 <= MAX_PROFIT_PERCENT

\* Mutant: the threshold is exclusive (> instead of >=).
is_good_deal_strict(a, potential_profit) ==
    /\ 100 * potential_profit > min_required_profit_x100(a)
    /\ is_realistic(a, potential_profit)

is_good_deal(a, potential_profit) ==
    /\ 100 * potential_profit >= min_required_profit_x100(a)
    /\ is_realistic(a, potential_profit)

deal_reason(a, potential_profit) ==
    IF is_good_deal(a, potential_profit) THEN "pepite"
    ELSE IF ~is_realistic(a, potential_profit) THEN "estimation_douteuse"
    ELSE "pas_assez_rentable"

\* Mutant: a missing estimate is computed with as an estimate of 0.
analyze_deal_none_as_zero(a, m, srcs) ==
    LET mv == IF m = None THEN 0 ELSE Val(m)
        potential_profit == mv - a IN
    [ad_price |-> a, market_price |-> Some(mv), price_sources |-> srcs,
     potential_profit |-> Some(potential_profit),
     is_good_deal |-> is_good_deal(a, potential_profit),
     reason |-> deal_reason(a, potential_profit)]

analyze_deal(a, m, srcs) ==
    IF m = None
    THEN [ad_price |-> a, market_price |-> None, price_sources |-> srcs,
          potential_profit |-> None, is_good_deal |-> FALSE,
          reason |-> "impossible_d_estimer"]
    ELSE LET potential_profit == Val(m) - a IN
         [ad_price |-> a, market_price |-> m, price_sources |-> srcs,
          potential_profit |-> Some(potential_profit),
          is_good_deal |-> is_good_deal(a, potential_profit),
          reason |-> deal_reason(a, potential_profit)]

(***************************************************************************)
(* The marketplace and the stores.                                         *)
(*                                                                         *)
(* A listing is what the pipeline reads of it: its asking price (0 stands  *)
(* for a listing without price, which Python takes as false) and the       *)
(* estimate the external price search returns for its title.  The three    *)
(* kinds are a good deal, a listing under 500 EUR whose estimate is        *)
(* implausible, and a listing without price.  client.search sorts by      *)
(* NEWEST: the fetch result is every published listing, newest first.      *)
(***************************************************************************)
MaxProfiles == 2

MaxAds == 1

AdKinds ==
    { [price |-> 2000, est |-> Some(3200)],
      [price |-> 400,  est |-> Some(1500)],
      [price |-> 0,    est |-> None] }

MARKET_ANALYSIS_ENABLED == TRUE

\* pepites[:5], normal_ads[:5] and normal_ads[5:] of do_check
NOTIFY_CAP == 5

\* if len(new_ads) > 10 of do_check
MORE_THRESHOLD == 10

Tasks == {"loop", "cmd"}

Put(f, k, v) == [x \in DOMAIN f \cup {k} |-> IF x = k THEN v ELSE f[x]]

Drop(f, k) == [x \in DOMAIN f \ {k} |-> f[x]]

FetchResult == [i \in 1..Len(ads) |-> Len(ads) + 1 - i]

load_seen_ads(sid) == IF sid \in DOMAIN seen THEN seen[sid] ELSE {}

save_seen_ads(sid, seen_ids) == Put(seen, sid, seen_ids)

\* Mutant: every fetched listing is taken as new.
filter_new_ads_all(fetched, seen_ids) == fetched

\* new_ads = [ad for ad in ads if str(ad.id) not in seen_ids]
filter_new_ads(fetched, seen_ids) ==
    SelectSeq(fetched, LAMBDA id : id \notin seen_ids)

\* analyze_ad: the external estimate of the listing, then analyze_deal
analyze_ad(id) == analyze_deal(ads[id].price, ads[id].est, <<>>)

\* do_check: "if MARKET_ANALYSIS_ENABLED and ad.price"
is_analysed(id) == MARKET_ANALYSIS_ENABLED /\ ads[id].price # 0

\* do_check: analyze_ad raises for the listing ("except Exception" around
\* the analysis); a listing kind says so with a field "raises"
analysis_raises(id) == "raises" \in DOMAIN ads[id]

\* the listing gets a MarketAnalysis: it has a price and analyze_ad returns
has_market(id) == is_analysed(id) /\ ~analysis_raises(id)

is_pepite(id) == has_market(id) /\ analyze_ad(id).is_good_deal

pepites_of(new_ads) == SelectSeq(new_ads, is_pepite)

normal_ads_of(new_ads) ==
    LET rest == SelectSeq(new_ads, LAMBDA id : ~is_pepite(id)) IN
    [i \in 1..Len(rest) |-> [ad |-> rest[i], market |-> has_market(rest[i])]]

(***************************************************************************)
(* A coroutine of the bot: the local variables of do_check and the await   *)
(* it is suspended in.  The bot is a single-threaded asyncio program: the  *)
(* code between two awaits runs without interruption, and at every await   *)
(* any other coroutine may run.  The asyncio.sleep(1) that follows the     *)
(* send of a listing touches no shared state and is taken together with    *)
(* that send.                                                              *)
(***************************************************************************)
IdleTask ==
    [pc |-> "idle", sid |-> 0, queue |-> {}, fetched |-> 0,
     seen_ids |-> {}, pepites |-> <<>>, normal_ads |-> <<>>, k |-> 0,
     rerun |-> FALSE, inactive_at_fetch |-> FALSE, fetch_failed |-> FALSE,
     save_failed |-> FALSE]

IdleMon ==
    [pc |-> "idle", queue |-> {}, sid |-> 0, fetched |-> 0, seen_ids |-> {},
     new_ads |-> <<>>, k |-> 0, success_count |-> 0, pepite_count |-> 0,
     rerun |-> FALSE, save_failed |-> FALSE]

InitBot ==
    /\ ads = <<>>
    /\ searches = <<>>
    /\ next_id = 1
    /\ seen = <<>>
    /\ task = [t \in Tasks |-> IdleTask]
    /\ mon = IdleMon
    /\ notified = {}
    /\ renotified = {}
    /\ lastRun = <<>>

\* Mutant: the ledger is written at every await of the run.
Await_saving(l) == [loc |-> l, saved |-> TRUE, how |-> "await"]

Await(l) == [loc |-> l, saved |-> FALSE, how |-> "await"]

NewIds(l) ==
    {l.pepites[i] : i \in 1..Len(l.pepites)}
        \cup {l.normal_ads[i].ad : i \in 1..Len(l.normal_ads)}

\* The new listings left without an individual notification by a cap.
CappedIds(l) ==
    {l.pepites[i] : i \in (NOTIFY_CAP + 1)..Len(l.pepites)}
        \cup {l.normal_ads[i].ad : i \in (NOTIFY_CAP + 1)..Len(l.normal_ads)}

\* save_seen_ads(search_id, seen_ids), then "...et N autres annonces"
Finish(l) ==
    IF Len(l.pepites) + Len(l.normal_ads) > MORE_THRESHOLD
    THEN [loc |-> [l EXCEPT !.pc = "send_more"], saved |-> TRUE, how |-> "await"]
    ELSE [loc |-> l, saved |-> TRUE, how |-> "return"]

\* for ad, market in normal_ads[:5], from position k: a listing that has an
\* analysis is marked seen without a message; the first one without is sent.
\* When the slice is exhausted normal_ads[5:] is marked seen.
NormalLoop(l, k) ==
    LET last == Min(NOTIFY_CAP, Len(l.normal_ads))
        bare == {j \in k..last : ~l.normal_ads[j].market}
    IN IF bare = {}
       THEN Finish([l EXCEPT !.seen_ids =
                       @ \cup {l.normal_ads[j].ad : j \in k..Len(l.normal_ads)}])
       ELSE LET j0 == CHOOSE j \in bare : \A i \in bare : j <= i IN
            Await([l EXCEPT !.pc = "send_normal", !.k = j0,
                            !.seen_ids =
                                @ \cup {l.normal_ads[j].ad : j \in k..(j0 - 1)}])

\* "if normal_ads:" after the pepites; pepites[5:] are not touched
AfterPepites(l) ==
    IF l.normal_ads # <<>>
    THEN Await([l EXCEPT !.pc = "send_normal_header", !.k = 0])
    ELSE Finish(l)

\* do_check from its call to its first await: the fetch, load_seen_ads, the
\* filter and the analysis of every new listing are synchronous calls.
DoCheckBegin(l0, sid, fetch_ok) ==
    LET base == [l0 EXCEPT
                    !.sid = sid, !.fetched = Len(ads),
                    !.rerun = (sid \in DOMAIN lastRun
                                  /\ lastRun[sid].fetched = Len(ads)),
                    !.inactive_at_fetch = (sid \in DOMAIN searches
                                              /\ ~searches[sid].active),
                    !.fetch_failed = ~fetch_ok]
    IN IF ~fetch_ok
       THEN Await([base EXCEPT !.pc = "send_error"])
       ELSE LET seen_ids == load_seen_ads(sid)
                new_ads == filter_new_ads(FetchResult, seen_ids)
                l == [base EXCEPT !.seen_ids = seen_ids,
                                  !.pepites = pepites_of(new_ads),
                                  !.normal_ads = normal_ads_of(new_ads)]
            IN IF new_ads = <<>> THEN Await([l EXCEPT !.pc = "send_none"])
               ELSE IF l.pepites # <<>>
                    THEN Await([l EXCEPT !.pc = "send_pepite_header"])
                    ELSE AfterPepites(l)

\* do_check from the completion of the await l.pc to the next await
Resume(l) ==
    CASE l.pc = "send_pepite_header" ->
            Await([l EXCEPT !.pc = "send_pepite", !.k = 1])
      [] l.pc = "send_pepite" ->
            LET l1 == [l EXCEPT !.seen_ids = @ \cup {l.pepites[l.k]}] IN
            IF l.k < Min(NOTIFY_CAP, Len(l.pepites))
            THEN Await([l1 EXCEPT !.k = l.k + 1])
            ELSE AfterPepites(l1)
      [] l.pc = "send_normal_header" -> NormalLoop(l, 1)
      [] l.pc = "send_normal" ->
            NormalLoop([l EXCEPT !.seen_ids = @ \cup {l.normal_ads[l.k].ad}],
                       l.k + 1)
      [] l.pc \in {"send_more", "send_none"} ->
            [loc |-> l, saved |-> FALSE, how |-> "return"]
      [] l.pc = "send_error" ->
            [loc |-> l, saved |-> FALSE, how |-> "error_return"]

\* The listing whose individual notification the await l.pc sends, if any.
SentAd(l) ==
    IF l.pc = "send_pepite" THEN {<<l.sid, l.pepites[l.k]>>}
    ELSE IF l.pc = "send_normal" THEN {<<l.sid, l.normal_ads[l.k].ad>>}
    ELSE {}

\* Where the coroutine goes when do_check returns: check_search ends;
\* monitor_loop goes to "await asyncio.sleep(5)", then to the next profile.
AfterReturn(t, l) ==
    IF t = "loop" THEN [IdleTask EXCEPT !.pc = "sleep_between", !.queue = l.queue]
    ELSE IdleTask

\* The counts that the messages of a returning run have stated: the header
\* of the good deals (len(pepites)), the header of the normal tier
\* (len(normal_ads) and skipped, the listings with an analysis) and, when
\* the run returns from it, the closing message (len(new_ads) - 10).
MessageCounts(l) ==
    (IF l.pepites # <<>> THEN {Len(l.pepites)} ELSE {})
        \cup (IF l.normal_ads # <<>>
              THEN {Len(l.normal_ads),
                    Cardinality({i \in 1..Len(l.normal_ads) : l.normal_ads[i].market})}
              ELSE {})
        \cup (IF l.pc = "send_more"
              THEN {Len(l.pepites) + Len(l.normal_ads) - MORE_THRESHOLD}
              ELSE {})

\* The new listings of a returning run that it did not notify individually.
UnnotifiedCount(l) ==
    Len(l.pepites) + Len(l.normal_ads)
        - Min(NOTIFY_CAP, Len(l.pepites))
        - Cardinality({i \in 1..Min(NOTIFY_CAP, Len(l.normal_ads)) :
                          ~l.normal_ads[i].market})

\* track: which history is kept: TRUE that of the runs (lastRun, under
\* SpecSeq), FALSE that of the notifications (notified, renotified)
Apply(t, r, track) ==
    /\ task' = [task EXCEPT ![t] = IF r.how = "await" THEN r.loc
                                   ELSE AfterReturn(t, r.loc)]
    /\ seen' = IF r.saved THEN save_seen_ads(r.loc.sid, r.loc.seen_ids) ELSE seen
    /\ lastRun' =
         IF ~track THEN lastRun
         ELSE IF r.how = "return"
         THEN Put(lastRun, r.loc.sid,
                  [fetched |-> r.loc.fetched, new |-> NewIds(r.loc),
                   capped |-> CappedIds(r.loc),
                   summary |-> MessageCounts(r.loc),
                   unnotified |-> UnnotifiedCount(r.loc)])
         ELSE IF r.how = "error_return" THEN Drop(lastRun, r.loc.sid)
         ELSE lastRun

(***************************************************************************)
(* The environment and the commands.                                       *)
(***************************************************************************)
\* A listing is published on the marketplace.
Publish(max_ads) ==
    /\ Len(ads) < max_ads
    /\ \E kind \in AdKinds : ads' = Append(ads, kind)
    /\ UNCHANGED <<searches, next_id, seen, task, mon, notified, renotified, lastRun>>
    /\ UNCHANGED dealVars
    /\ UNCHANGED fileVars
    /\ UNCHANGED estVars
    /\ UNCHANGED uiVars
    /\ UNCHANGED cycle

\* A listing of one of the given kinds is published.
PublishOf(max_ads, kinds) ==
    /\ Len(ads) < max_ads
    /\ \E kind \in kinds : ads' = Append(ads, kind)
    /\ UNCHANGED <<searches, next_id, seen, task, mon, notified, renotified, lastRun>>
    /\ UNCHANGED dealVars
    /\ UNCHANGED fileVars
    /\ UNCHANGED estVars
    /\ UNCHANGED uiVars
    /\ UNCHANGED cycle

\* Mutant: the id is derived from the number of profiles in the store
\* instead of the counter.
handle_wizard_save_reuse(max_profiles) ==
    LET id == Cardinality(DOMAIN searches) + 1 IN
    /\ next_id <= max_profiles
    /\ searches' = Put(searches, id, [active |-> FALSE])
    /\ next_id' = id + 1
    /\ UNCHANGED <<ads, seen, task, mon, notified, renotified, lastRun>>
    /\ UNCHANGED dealVars
    /\ UNCHANGED fileVars
    /\ UNCHANGED estVars
    /\ UNCHANGED uiVars
    /\ UNCHANGED cycle

\* handle_wizard, step 7: the profile is written, inactive
handle_wizard_save(max_profiles) ==
    /\ next_id <= max_profiles
    /\ searches' = Put(searches, next_id, [active |-> FALSE])
    /\ next_id' = next_id + 1
    /\ UNCHANGED <<ads, seen, task, mon, notified, renotified, lastRun>>
    /\ UNCHANGED dealVars
    /\ UNCHANGED fileVars
    /\ UNCHANGED estVars
    /\ UNCHANGED uiVars
    /\ UNCHANGED cycle

start_search(sid) ==
    /\ sid \in DOMAIN searches
    /\ searches' = [searches EXCEPT ![sid].active = TRUE]
    /\ UNCHANGED <<ads, next_id, seen, task, mon, notified, renotified, lastRun>>
    /\ UNCHANGED dealVars
    /\ UNCHANGED fileVars
    /\ UNCHANGED estVars
    /\ UNCHANGED uiVars
    /\ UNCHANGED cycle

stop_search(sid) ==
    /\ sid \in DOMAIN searches
    /\ searches' = [searches EXCEPT ![sid].active = FALSE]
    /\ UNCHANGED <<ads, next_id, seen, task, mon, notified, renotified, lastRun>>
    /\ UNCHANGED dealVars
    /\ UNCHANGED fileVars
    /\ UNCHANGED estVars
    /\ UNCHANGED uiVars
    /\ UNCHANGED cycle

\* start_all: every profile of the store is set active
start_all ==
    /\ searches' = [sid \in DOMAIN searches |->
                        [searches[sid] EXCEPT !.active = TRUE]]
    /\ UNCHANGED <<ads, next_id, seen, task, mon, notified, renotified, lastRun>>
    /\ UNCHANGED dealVars
    /\ UNCHANGED fileVars
    /\ UNCHANGED estVars
    /\ UNCHANGED uiVars
    /\ UNCHANGED cycle

\* stop_all: every profile of the store is set inactive
stop_all ==
    /\ searches' = [sid \in DOMAIN searches |->
                        [searches[sid] EXCEPT !.active = FALSE]]
    /\ UNCHANGED <<ads, next_id, seen, task, mon, notified, renotified, lastRun>>
    /\ UNCHANGED dealVars
    /\ UNCHANGED fileVars
    /\ UNCHANGED estVars
    /\ UNCHANGED uiVars
    /\ UNCHANGED cycle

\* delete_search: the profile and its seen file are removed
delete_search(sid) ==
    /\ sid \in DOMAIN searches
    /\ searches' = Drop(searches, sid)
    /\ seen' = Drop(seen, sid)
    /\ lastRun' = Drop(lastRun, sid)
    /\ UNCHANGED <<ads, next_id, task, mon, notified, renotified>>
    /\ UNCHANGED dealVars
    /\ UNCHANGED fileVars
    /\ UNCHANGED estVars
    /\ UNCHANGED uiVars
    /\ UNCHANGED cycle

\* check_search up to "await ctx.send(Verification...)": the profile is read
\* from the store before the await, do_check is called after it
check_search(sid) ==
    /\ task["cmd"].pc = "idle"
    /\ sid \in DOMAIN searches
    /\ task' = [task EXCEPT !["cmd"] = [IdleTask EXCEPT !.pc = "send_verif", !.sid = sid]]
    /\ UNCHANGED <<ads, searches, next_id, seen, mon, notified, renotified, lastRun>>
    /\ UNCHANGED dealVars
    /\ UNCHANGED fileVars
    /\ UNCHANGED estVars
    /\ UNCHANGED uiVars
    /\ UNCHANGED cycle

\* check_search after its await: do_check(search_id, ...) up to its first await
check_search_do_check(fetch_ok, track) ==
    /\ task["cmd"].pc = "send_verif"
    /\ Apply("cmd", DoCheckBegin(task["cmd"], task["cmd"].sid, fetch_ok), track)
    /\ UNCHANGED <<ads, searches, next_id, mon, notified, renotified>>
    /\ UNCHANGED dealVars
    /\ UNCHANGED fileVars
    /\ UNCHANGED estVars
    /\ UNCHANGED uiVars
    /\ UNCHANGED cycle

\* Mutant: the cycle does not skip the inactive profiles.
monitor_loop_polls_all(fetch_ok, track) ==
    /\ task["loop"].pc = "idle"
    /\ LET active == DOMAIN searches IN
       /\ active # {}
       /\ LET first == CHOOSE sid \in active : \A o \in active : sid <= o IN
          Apply("loop", DoCheckBegin([IdleTask EXCEPT !.queue = active \ {first}],
                                     first, fetch_ok), track)
    /\ UNCHANGED <<ads, searches, next_id, mon, notified, renotified>>
    /\ UNCHANGED dealVars
    /\ UNCHANGED fileVars
    /\ UNCHANGED estVars
    /\ UNCHANGED uiVars
    /\ UNCHANGED cycle

\* monitor_loop, a tick of the 15-minute timer: data = load_searches(), then
\* the profiles of that snapshot in store order; inactive ones are skipped.
\* The first do_check runs to its first await within the same step.
monitor_loop(fetch_ok, track) ==
    /\ task["loop"].pc = "idle"
    /\ LET active == {sid \in DOMAIN searches : searches[sid].active} IN
       /\ active # {}
       /\ LET first == CHOOSE sid \in active : \A o \in active : sid <= o IN
          Apply("loop", DoCheckBegin([IdleTask EXCEPT !.queue = active \ {first}],
                                     first, fetch_ok), track)
    /\ UNCHANGED <<ads, searches, next_id, mon, notified, renotified>>
    /\ UNCHANGED dealVars
    /\ UNCHANGED fileVars
    /\ UNCHANGED estVars
    /\ UNCHANGED uiVars
    /\ UNCHANGED cycle

\* monitor_loop after "await asyncio.sleep(5)": the next profile of the
\* snapshot taken at the start of the cycle, or the end of the cycle
monitor_loop_next(fetch_ok, track) ==
    /\ task["loop"].pc = "sleep_between"
    /\ LET queue == task["loop"].queue IN
       IF queue = {}
       THEN /\ fetch_ok
            /\ task' = [task EXCEPT !["loop"] = IdleTask]
            /\ UNCHANGED <<seen, lastRun>>
       ELSE LET next == CHOOSE sid \in queue : \A o \in queue : sid <= o IN
            Apply("loop", DoCheckBegin([IdleTask EXCEPT !.queue = queue \ {next}],
                                       next, fetch_ok), track)
    /\ UNCHANGED <<ads, searches, next_id, mon, notified, renotified>>
    /\ UNCHANGED dealVars
    /\ UNCHANGED fileVars
    /\ UNCHANGED estVars
    /\ UNCHANGED uiVars
    /\ UNCHANGED cycle

SendPcs ==
    {"send_pepite_header", "send_pepite", "send_normal_header", "send_normal",
     "send_more", "send_none", "send_error"}

\* An "await channel.send(...)" of do_check completes: the message is out
SendOk(t, track) ==
    /\ task[t].pc \in SendPcs
    /\ notified' = IF track THEN notified ELSE notified \cup SentAd(task[t])
    /\ renotified' = IF track THEN renotified
                     ELSE renotified \cup (SentAd(task[t]) \cap notified)
    /\ Apply(t, Resume(task[t]), track)
    /\ UNCHANGED <<ads, searches, next_id, mon>>
    /\ UNCHANGED dealVars
    /\ UNCHANGED fileVars
    /\ UNCHANGED estVars
    /\ UNCHANGED uiVars
    /\ UNCHANGED cycle

\* An "await channel.send(...)" raises.  Inside the try of do_check the
\* handler sends the error message; when that send raises too the exception
\* leaves do_check: the command ends; the monitor_loop task stops inside its
\* "for" loop, with the profiles of the snapshot it had not reached yet.
SendFail(t, track) ==
    /\ task[t].pc \in SendPcs \cup {"send_verif"}
    /\ task' = [task EXCEPT ![t] =
                  IF task[t].pc = "send_verif" THEN IdleTask
                  ELSE IF task[t].pc = "send_error"
                       THEN IF t = "loop"
                            THEN [IdleTask EXCEPT !.pc = "stopped",
                                                  !.queue = task[t].queue]
                            ELSE IdleTask
                       ELSE [@ EXCEPT !.pc = "send_error"]]
    /\ lastRun' = IF track /\ task[t].pc = "send_error"
                  THEN Drop(lastRun, task[t].sid)
                  ELSE lastRun
    /\ UNCHANGED <<ads, searches, next_id, seen, mon, notified, renotified>>
    /\ UNCHANGED dealVars
    /\ UNCHANGED fileVars
    /\ UNCHANGED estVars
    /\ UNCHANGED uiVars
    /\ UNCHANGED cycle

\* save_seen_ads raises OSError.  opened: open(file, "w") had succeeded and
\* the write (json.dump, or the flush at close) raised: the file was
\* truncated by the open and holds at most the beginning of a JSON text, on
\* which load_seen_ads gets JSONDecodeError and returns set().  When mkdir
\* or open raised, the file is as it was.
save_seen_ads_raises(sid, opened) ==
    IF opened THEN Put(seen, sid, {}) ELSE seen

\* An "await channel.send(...)" of do_check completes and the code up to the
\* next await reaches save_seen_ads (line 808), which raises: "except
\* Exception" of do_check (line 817) sends the error message.
SendOkSaveRaises(t, opened, track) ==
    /\ task[t].pc \in SendPcs
    /\ Resume(task[t]).saved
    /\ notified' = IF track THEN notified ELSE notified \cup SentAd(task[t])
    /\ renotified' = IF track THEN renotified
                     ELSE renotified \cup (SentAd(task[t]) \cap notified)
    /\ task' = [task EXCEPT ![t] =
                  [Resume(task[t]).loc EXCEPT !.pc = "send_error",
                                              !.save_failed = TRUE]]
    /\ seen' = save_seen_ads_raises(task[t].sid, opened)
    /\ UNCHANGED <<ads, searches, next_id, mon, lastRun>>
    /\ UNCHANGED dealVars
    /\ UNCHANGED fileVars
    /\ UNCHANGED estVars
    /\ UNCHANGED uiVars
    /\ UNCHANGED cycle

(***************************************************************************)
(* monitor.py: main and process_search, a process of its own that works    *)
(* on the same data directory.  MIN_AD_PRICE is imported from              *)
(* market_analyzer, which does not define it; the specification calls it   *)
(* the configured minimum asking price.                                    *)
(***************************************************************************)
MIN_AD_PRICE == 500

analyze_ad_market(id) ==
    IF ~MARKET_ANALYSIS_ENABLED THEN None
    ELSE IF ads[id].price = 0 \/ ads[id].price < MIN_AD_PRICE THEN None
    ELSE Some(analyze_ad(id))

\* process_search: "market = None; if MARKET_ANALYSIS_ENABLED and ad.price
\* and ad.price >= MIN_AD_PRICE: market = analyze_ad_market(ad)"
market_of(id) ==
    IF MARKET_ANALYSIS_ENABLED /\ ads[id].price # 0 /\ ads[id].price >= MIN_AD_PRICE
    THEN analyze_ad_market(id)
    ELSE None

\* The locals of main and its output.  pc is "off" where the totals are not
\* followed, else "run" during the loop over active_searches, "done" once
\* the summary is printed and "crashed" when an exception ended main.
\* results and attempts are history: what each process_search returned
\* (and whether it printed [SKIP]) and the calls of
\* send_discord_notification, in order.
CycleOff == [pc |-> "off"]

CycleIdle == [pc |-> "idle"]

\* main: total_new = 0, total_sent = 0, total_pepites = 0
CycleStart(active) ==
    IF cycle.pc = "off" THEN cycle
    ELSE [pc |-> "run", active |-> active,
          total_new |-> 0, total_sent |-> 0, total_pepites |-> 0,
          results |-> <<>>, attempts |-> <<>>, resume |-> None]

\* main, [RESUME]: "Recherches traitees: len(active_searches)", then the
\* three totals
Summary(c) ==
    [traitees |-> Cardinality(c.active),
     nouvelles |-> c.total_new,
     envoyees |-> c.total_sent,
     pepites |-> c.total_pepites]

\* process_search returns (new, sent, pepites) to main, having printed
\* [SKIP] or not; main adds them to its totals and, after the last profile
\* (queue empty), prints the summary
ProcessSearchReturns(sid, queue, new, sent, pepites, skip) ==
    IF cycle.pc = "off" THEN cycle
    ELSE LET c == [cycle EXCEPT
                     !.total_new = @ + new,
                     !.total_sent = @ + sent,
                     !.total_pepites = @ + pepites,
                     !.results = Put(@, sid, [new |-> new, sent |-> sent,
                                              pepites |-> pepites,
                                              skip |-> skip])]
         IN IF queue = {} THEN [c EXCEPT !.pc = "done", !.resume = Some(Summary(c))]
            ELSE c

\* main: the next profile of active_searches, or the end of main
NextSearch(queue) ==
    IF queue = {} THEN IdleMon
    ELSE LET sid == CHOOSE x \in queue : \A o \in queue : x <= o IN
         [IdleMon EXCEPT !.pc = "sleep", !.sid = sid, !.queue = queue \ {sid}]

\* main: load_searches, the active profiles, up to the first process_search.
\* Every cycle is a new process: after a cycle that ended in a traceback
\* ("crashed") the scheduler starts the next one all the same.
main ==
    /\ mon.pc \in {"idle", "crashed"}
    /\ LET active == {sid \in DOMAIN searches : searches[sid].active} IN
       /\ active # {}
       /\ mon' = NextSearch(active)
    /\ UNCHANGED <<ads, searches, next_id, seen, task, notified, renotified, lastRun>>
    /\ UNCHANGED dealVars
    /\ UNCHANGED fileVars
    /\ UNCHANGED estVars
    /\ UNCHANGED uiVars
    /\ cycle' = CycleStart({sid \in DOMAIN searches : searches[sid].active})

\* process_search after its delay: fetch, load_seen_ads, filter_new_ads
process_search_fetch(fetch_ok, track) ==
    /\ mon.pc = "sleep"
    /\ LET seen_ids == load_seen_ads(mon.sid)
           new_ads == filter_new_ads(FetchResult, seen_ids)
       IN IF ~fetch_ok
          THEN /\ mon' = NextSearch(mon.queue)
               /\ lastRun' = IF track THEN Drop(lastRun, mon.sid) ELSE lastRun
          ELSE IF new_ads = <<>>
          THEN /\ mon' = NextSearch(mon.queue)
               /\ lastRun' = IF track
                             THEN Put(lastRun, mon.sid,
                                      [fetched |-> Len(ads), new |-> {},
                                       capped |-> {}, summary |-> {}, unnotified |-> 0])
                             ELSE lastRun
          ELSE /\ mon' = [mon EXCEPT
                            !.pc = "ad", !.fetched = Len(ads),
                            !.seen_ids = seen_ids, !.new_ads = new_ads, !.k = 1,
                            !.rerun = (mon.sid \in DOMAIN lastRun
                                          /\ lastRun[mon.sid].fetched = Len(ads))]
               /\ lastRun' = lastRun
    /\ UNCHANGED <<ads, searches, next_id, seen, task, notified, renotified>>
    /\ UNCHANGED dealVars
    /\ UNCHANGED fileVars
    /\ UNCHANGED estVars
    /\ UNCHANGED uiVars
    /\ cycle' = IF ~fetch_ok
                THEN ProcessSearchReturns(mon.sid, mon.queue, 0, 0, 0, TRUE)
                ELSE IF filter_new_ads(FetchResult, load_seen_ads(mon.sid)) = <<>>
                THEN ProcessSearchReturns(mon.sid, mon.queue, 0, 0, 0, FALSE)
                ELSE cycle

\* Mutant: the loop stops after NOTIFY_CAP listings, as in do_check.
process_search_ad_capped(send_ok, track) ==
    /\ mon.pc = "ad"
    /\ LET id == mon.new_ads[mon.k]
           market == market_of(id)
           pepite == market # None /\ Val(market).is_good_deal
       IN /\ mon' = [mon EXCEPT
                       !.pepite_count = IF pepite THEN @ + 1 ELSE @,
                       !.success_count = IF send_ok THEN @ + 1 ELSE @,
                       !.seen_ids = @ \cup {id},
                       !.k = @ + 1,
                       !.pc = IF mon.k = Min(NOTIFY_CAP, Len(mon.new_ads))
                              THEN "save" ELSE "ad"]
          /\ notified' = IF send_ok /\ ~track THEN notified \cup {<<mon.sid, id>>}
                         ELSE notified
          /\ renotified' = IF send_ok /\ ~track /\ <<mon.sid, id>> \in notified
                           THEN renotified \cup {<<mon.sid, id>>}
                           ELSE renotified
    /\ UNCHANGED <<ads, searches, next_id, seen, task, lastRun>>
    /\ UNCHANGED dealVars
    /\ UNCHANGED fileVars
    /\ UNCHANGED estVars
    /\ UNCHANGED uiVars
    /\ cycle' = IF cycle.pc = "off" THEN cycle
                ELSE [cycle EXCEPT
                        !.attempts = Append(@, <<mon.sid, mon.new_ads[mon.k]>>)]

\* process_search, one turn of "for ad in new_ads": the analysis, the
\* notification (send_discord_notification returns False when it fails) and
\* seen_ids.add
process_search_ad(send_ok, track) ==
    /\ mon.pc = "ad"
    /\ LET id == mon.new_ads[mon.k]
           market == market_of(id)
           pepite == market # None /\ Val(market).is_good_deal
       IN /\ mon' = [mon EXCEPT
                       !.pepite_count = IF pepite THEN @ + 1 ELSE @,
                       !.success_count = IF send_ok THEN @ + 1 ELSE @,
                       !.seen_ids = @ \cup {id},
                       !.k = @ + 1,
                       !.pc = IF mon.k = Len(mon.new_ads) THEN "save" ELSE "ad"]
          /\ notified' = IF send_ok /\ ~track THEN notified \cup {<<mon.sid, id>>}
                         ELSE notified
          /\ renotified' = IF send_ok /\ ~track /\ <<mon.sid, id>> \in notified
                           THEN renotified \cup {<<mon.sid, id>>}
                           ELSE renotified
    /\ UNCHANGED <<ads, searches, next_id, seen, task, lastRun>>
    /\ UNCHANGED dealVars
    /\ UNCHANGED fileVars
    /\ UNCHANGED estVars
    /\ UNCHANGED uiVars
    /\ cycle' = IF cycle.pc = "off" THEN cycle
                ELSE [cycle EXCEPT
                        !.attempts = Append(@, <<mon.sid, mon.new_ads[mon.k]>>)]

\* process_search: save_seen_ads and the return to main
process_search_save(track) ==
    /\ mon.pc = "save"
    /\ seen' = save_seen_ads(mon.sid, mon.seen_ids)
    /\ lastRun' = IF track
                  THEN Put(lastRun, mon.sid,
                           [fetched |-> mon.fetched,
                            new |-> {mon.new_ads[i] : i \in 1..Len(mon.new_ads)},
                            capped |-> {}, summary |-> {}, unnotified |-> 0])
                  ELSE lastRun
    /\ mon' = NextSearch(mon.queue)
    /\ UNCHANGED <<ads, searches, next_id, task, notified, renotified>>
    /\ UNCHANGED dealVars
    /\ UNCHANGED fileVars
    /\ UNCHANGED estVars
    /\ UNCHANGED uiVars
    /\ cycle' = ProcessSearchReturns(mon.sid, mon.queue, Len(mon.new_ads),
                                     mon.success_count, mon.pepite_count,
                                     FALSE)

\* process_search: save_seen_ads (line 607) raises OSError.  Neither
\* process_search nor main (lines 612-658) has a handler around it: the
\* exception ends the process, with the profiles main had not reached yet.
process_search_save_raises(opened, track) ==
    /\ mon.pc = "save"
    /\ seen' = save_seen_ads_raises(mon.sid, opened)
    /\ lastRun' = IF track THEN Drop(lastRun, mon.sid) ELSE lastRun
    /\ mon' = [IdleMon EXCEPT !.pc = "crashed", !.sid = mon.sid,
                              !.queue = mon.queue, !.save_failed = TRUE]
    /\ UNCHANGED <<ads, searches, next_id, task, notified, renotified>>
    /\ UNCHANGED dealVars
    /\ UNCHANGED fileVars
    /\ UNCHANGED estVars
    /\ UNCHANGED uiVars
    /\ cycle' = IF cycle.pc = "off" THEN cycle
                ELSE [cycle EXCEPT !.pc = "crashed"]

(***************************************************************************)
(* load_seen_ads on the file itself (monitor.py and discord_bot.py have    *)
(* the same body).  What is on disk is one of:                             *)
(*   missing         no file                                               *)
(*   unreadable      open() raises OSError                                 *)
(*   bad_encoding    bytes that are not UTF-8: read raises                 *)
(*                   UnicodeDecodeError                                    *)
(*   bad_json        text that is not JSON (empty, truncated):             *)
(*                   JSONDecodeError                                       *)
(*   not_object      a JSON value that is no object (null, a list):        *)
(*                   data.get raises AttributeError                        *)
(*   no_key          an object without "seen_ids"                          *)
(*   ids_not_list    "seen_ids" is null or a number: set() raises          *)
(*                   TypeError                                             *)
(*   ids_unhashable  "seen_ids" is a list that holds a list or an object:  *)
(*                   set() raises TypeError                                *)
(*   ok              "seen_ids" is the list ids                            *)
(***************************************************************************)
MaxFileId == 3

MaxFileLen == 4

CorruptKinds ==
    {"unreadable", "bad_encoding", "bad_json", "not_object", "no_key",
     "ids_not_list", "ids_unhashable"}

IdLists ==
    UNION {[1..n -> 1..MaxFileId] : n \in 0..MaxFileLen}

SeenFiles ==
    {[kind |-> k, ids |-> <<>>] : k \in {"missing"} \cup CorruptKinds}
        \cup {[kind |-> "ok", ids |-> l] : l \in IdLists}

\* The exception raised inside the try of load_seen_ads, "" when none is.
RaisedInTry(f) ==
    CASE f.kind = "unreadable"     -> "OSError"
      [] f.kind = "bad_encoding"   -> "UnicodeDecodeError"
      [] f.kind = "bad_json"       -> "JSONDecodeError"
      [] f.kind = "not_object"     -> "AttributeError"
      [] f.kind = "ids_not_list"   -> "TypeError"
      [] f.kind = "ids_unhashable" -> "TypeError"
      [] OTHER                     -> ""

\* if not seen_file.exists(): return set()
\* try: return set(json.load(f).get("seen_ids", []))
\* except (json.JSONDecodeError, OSError): return set()
load_seen_ads_file(f) ==
    IF f.kind = "missing" THEN [raised |-> "", value |-> {}]
    ELSE IF RaisedInTry(f) \in {"JSONDecodeError", "OSError"}
         THEN [raised |-> "", value |-> {}]
    ELSE IF RaisedInTry(f) # ""
         THEN [raised |-> RaisedInTry(f), value |-> {}]
    ELSE IF f.kind = "no_key" THEN [raised |-> "", value |-> {}]
    ELSE [raised |-> "", value |-> {f.ids[i] : i \in 1..Len(f.ids)}]

InitFile ==
    /\ seen_file = [kind |-> "missing", ids |-> <<>>]
    /\ load_result = None

(***************************************************************************)
(* search_market_price (market_analyzer.py).  A result of the text search  *)
(* is its href and the numbers that the four patterns find in its title    *)
(* and body, already cleaned of their separators (lines 94-112: the        *)
(* patterns capture digits and separators only, so int() of the cleaned    *)
(* text is the number).  The median is kept in halves of a euro            *)
(* (price_x2): statistics.median of an even number of prices is the mean   *)
(* of the two middle ones.                                                 *)
(***************************************************************************)
\* if 500 <= price <= 80000
RANGE_MIN == 500

RANGE_MAX == 80000

\* for query in queries[:2]
MAX_QUERIES == 2

\* if len(prices) >= 5: break
ENOUGH_PRICES == 5

\* if len(prices) >= 4
IQR_MIN_PRICES == 4

\* sources[:3]
MAX_SOURCES == 3

\* Mutant: no price is filtered out.
in_range_any(price) == price = price

in_range(price) == RANGE_MIN <= price /\ price <= RANGE_MAX

\* sorted(prices)
RECURSIVE sorted(_)
sorted(s) ==
    IF s = <<>> THEN <<>>
    ELSE LET rest == sorted(Tail(s))
             k == Cardinality({i \in 1..Len(rest) : rest[i] <= Head(s)})
         IN SubSeq(rest, 1, k) \o <<Head(s)>> \o SubSeq(rest, k + 1, Len(rest))

\* Mutant: the outliers are kept.
iqr_filter_keeps_all(prices) == prices

\* lines 133-140; the bounds q1 - 1.5 * iqr and q3 + 1.5 * iqr are compared
\* in halves.  Python indexes from 0.
iqr_filter(prices) ==
    IF Len(prices) >= IQR_MIN_PRICES
    THEN LET sorted_prices == sorted(prices)
             q1 == sorted_prices[(Len(sorted_prices) \div 4) + 1]
             q3 == sorted_prices[((3 * Len(sorted_prices)) \div 4) + 1]
             iqr == q3 - q1
         IN SelectSeq(prices, LAMBDA p : /\ 2 * q1 - 3 * iqr <= 2 * p
                                         /\ 2 * p <= 2 * q3 + 3 * iqr)
    ELSE prices

\* statistics.median(prices), times two
median_x2(prices) ==
    LET s == sorted(prices)
        n == Len(s)
    IN IF n % 2 = 1 THEN 2 * s[(n \div 2) + 1]
       ELSE s[n \div 2] + s[(n \div 2) + 1]

\* Mutant: every source is returned.
first_sources_all(srcs) == srcs

\* sources[:3]
first_sources(srcs) == SubSeq(srcs, 1, Min(MAX_SOURCES, Len(srcs)))

\* Mutant: the bounds of the IQR filter are exclusive.
aggregate_exclusive_bounds(prices, srcs) ==
    IF prices = <<>> THEN [price_x2 |-> None, sources |-> srcs]
    ELSE LET s == sorted(prices)
             q1 == s[(Len(s) \div 4) + 1]
             q3 == s[((3 * Len(s)) \div 4) + 1]
             kept == IF Len(prices) >= IQR_MIN_PRICES
                     THEN SelectSeq(prices,
                             LAMBDA p : /\ 2 * q1 - 3 * (q3 - q1) < 2 * p
                                        /\ 2 * p < 2 * q3 + 3 * (q3 - q1))
                     ELSE prices
         IN IF kept = <<>> THEN [price_x2 |-> None, sources |-> srcs]
            ELSE [price_x2 |-> Some(median_x2(kept)),
                  sources |-> first_sources(srcs)]

\* lines 129-148: what search_market_price returns once the queries are done
aggregate(prices, srcs) ==
    IF prices = <<>> THEN [price_x2 |-> None, sources |-> srcs]
    ELSE LET kept == iqr_filter(prices) IN
         IF kept = <<>> THEN [price_x2 |-> None, sources |-> srcs]
         ELSE [price_x2 |-> Some(median_x2(kept)),
               sources |-> first_sources(srcs)]

\* The provider's answers the function is exercised on: up to MaxResults
\* results for a query, up to MaxMatches numbers found in a result, and no
\* more than MaxCollected numbers in range in all.  The hrefs are opaque
\* strings: a result carries no href, one that has been kept as a source,
\* or the first of Hrefs that has not.
MaxResults == 2

MaxMatches == 3

MaxCollected == 6

MatchValues == {RANGE_MIN - 1, RANGE_MIN, RANGE_MAX, RANGE_MAX + 1}

Hrefs == <<"a", "b", "c", "d">>

HrefChoices ==
    {""} \cup {smp.sources[i] : i \in 1..Len(smp.sources)}
         \cup (IF Len(smp.sources) < Len(Hrefs)
               THEN {Hrefs[Len(smp.sources) + 1]} ELSE {})

\* issued: the queries issued so far, in order (their index in queries);
\* at_issue: how many prices were collected when each was issued;
\* contributors: the hrefs of the results a price was collected from;
\* rejected: a match was left out; raised: the provider raised;
\* n: the results of the current query handled so far; href, m: the href
\* of the current result and how many of its matches have been handled.
IdleSmp ==
    [pc |-> "idle", issued |-> <<>>, at_issue |-> <<>>, n |-> 0,
     href |-> "", m |-> 0,
     prices |-> <<>>, sources |-> <<>>, contributors |-> {},
     rejected |-> FALSE, raised |-> FALSE, ret |-> None]

\* Mutant: the handler returns what had been collected.
ddgs_text_keeps_partial(ok) ==
    /\ smp.pc = "query"
    /\ LET q == Len(smp.issued) + 1
           l == [smp EXCEPT !.issued = Append(@, q),
                            !.at_issue = Append(@, Len(smp.prices))]
       IN smp' = IF ok THEN [l EXCEPT !.pc = "results", !.n = 0]
                 ELSE [l EXCEPT !.pc = "done", !.raised = TRUE,
                                !.ret = Some(aggregate(smp.prices, smp.sources))]
    /\ UNCHANGED cat
    /\ UNCHANGED dealVars
    /\ UNCHANGED botVars
    /\ UNCHANGED fileVars
    /\ UNCHANGED uiVars
    /\ UNCHANGED cycle

\* results = list(ddgs.text(query, max_results=10)) for the next query of
\* queries[:2]; when the provider raises, "except Exception" returns
\* (None, []).
ddgs_text(ok) ==
    /\ smp.pc = "query"
    /\ LET q == Len(smp.issued) + 1
           l == [smp EXCEPT !.issued = Append(@, q),
                            !.at_issue = Append(@, Len(smp.prices))]
       IN smp' = IF ok THEN [l EXCEPT !.pc = "results", !.n = 0]
                 ELSE [l EXCEPT !.pc = "done", !.raised = TRUE,
                                !.ret = Some([price_x2 |-> None, sources |-> <<>>])]
    /\ UNCHANGED cat
    /\ UNCHANGED dealVars
    /\ UNCHANGED botVars
    /\ UNCHANGED fileVars
    /\ UNCHANGED uiVars
    /\ UNCHANGED cycle

\* "for result in results": the next result, its href and its matches
\* (lines 86-106)
next_result(href) ==
    /\ smp.pc = "results"
    /\ smp.n < MaxResults
    /\ smp' = [smp EXCEPT !.pc = "matches", !.n = @ + 1, !.href = href, !.m = 0]
    /\ UNCHANGED cat
    /\ UNCHANGED dealVars
    /\ UNCHANGED botVars
    /\ UNCHANGED fileVars
    /\ UNCHANGED uiVars
    /\ UNCHANGED cycle

\* One turn of "for match in all_matches": a price in range is appended to
\* prices, and the href of the result to sources when it is not empty and
\* not there yet.
next_match(price) ==
    /\ smp.pc = "matches"
    /\ smp.m < MaxMatches
    /\ in_range(price) => Len(smp.prices) < MaxCollected
    /\ smp' = IF in_range(price)
              THEN [smp EXCEPT
                      !.m = @ + 1,
                      !.prices = Append(@, price),
                      !.sources =
                          IF smp.href # ""
                                /\ \A i \in 1..Len(smp.sources) :
                                      smp.sources[i] # smp.href
                          THEN Append(@, smp.href) ELSE @,
                      !.contributors = @ \cup {smp.href}]
              ELSE [smp EXCEPT !.m = @ + 1, !.rejected = TRUE]
    /\ UNCHANGED cat
    /\ UNCHANGED dealVars
    /\ UNCHANGED botVars
    /\ UNCHANGED fileVars
    /\ UNCHANGED uiVars
    /\ UNCHANGED cycle

\* The matches of the result are exhausted.
matches_end ==
    /\ smp.pc = "matches"
    /\ smp' = [smp EXCEPT !.pc = "results"]
    /\ UNCHANGED cat
    /\ UNCHANGED dealVars
    /\ UNCHANGED botVars
    /\ UNCHANGED fileVars
    /\ UNCHANGED uiVars
    /\ UNCHANGED cycle

\* Mutant: the loop goes on to the next query whatever has been collected.
results_end_no_break ==
    /\ smp.pc = "results"
    /\ smp' = IF Len(smp.issued) < MAX_QUERIES
              THEN [smp EXCEPT !.pc = "query"]
              ELSE [smp EXCEPT !.pc = "done",
                               !.ret = Some(aggregate(smp.prices, smp.sources))]
    /\ UNCHANGED cat
    /\ UNCHANGED dealVars
    /\ UNCHANGED botVars
    /\ UNCHANGED fileVars
    /\ UNCHANGED uiVars
    /\ UNCHANGED cycle

\* The results of the query are exhausted: "if len(prices) >= 5: break",
\* the next query if there is one, and past the loop lines 129-148.
results_end ==
    /\ smp.pc = "results"
    /\ smp' = IF Len(smp.prices) < ENOUGH_PRICES /\ Len(smp.issued) < MAX_QUERIES
              THEN [smp EXCEPT !.pc = "query"]
              ELSE [smp EXCEPT !.pc = "done",
                               !.ret = Some(aggregate(smp.prices, smp.sources))]
    /\ UNCHANGED cat
    /\ UNCHANGED dealVars
    /\ UNCHANGED botVars
    /\ UNCHANGED fileVars
    /\ UNCHANGED uiVars
    /\ UNCHANGED cycle

(***************************************************************************)
(* The catalog matcher and the local catalog lookup.  The source files     *)
(* hold no catalog code; both are taken from the specification (4.1 and    *)
(* 4.2).  A title is the set of tokens of its normalized text, a catalog   *)
(* key a non-empty set of tokens, the catalog the sequence of its keys in  *)
(* iteration order, an entry a table from some years to reference prices.  *)
(***************************************************************************)
IdleCat == [fn |-> "none", result |-> None]

\* "score = count of key-tokens present in the normalized title; add a
\* fixed bonus (+10) if all key-tokens are present"
ALL_TOKENS_BONUS == 10

MIN_SCORE == 2

score(key, title) ==
    Cardinality(key \cap title)
        + (IF key \subseteq title THEN ALL_TOKENS_BONUS ELSE 0)

\* "Keep the highest-scoring key; require score >= 2 or return none"; the
\* first key that reaches the top score wins.
match(title, catalog) ==
    IF catalog = <<>> THEN None
    ELSE LET best == CHOOSE i \in 1..Len(catalog) :
                        /\ \A j \in 1..Len(catalog) :
                              score(catalog[j], title) <= score(catalog[i], title)
                        /\ \A j \in 1..(i - 1) :
                              score(catalog[j], title) < score(catalog[i], title)
         IN IF score(catalog[best], title) >= MIN_SCORE
            THEN Some(catalog[best]) ELSE None

\* "if year is supplied and present with a positive value, return it
\* exactly; else scan years in descending order and return the first
\* positive value found; else return (none, [])"
lookup(entry, year) ==
    IF year # None /\ Val(year) \in DOMAIN entry /\ entry[Val(year)] > 0
    THEN Some(entry[Val(year)])
    ELSE LET positive == {y \in DOMAIN entry : entry[y] > 0} IN
         IF positive = {} THEN None
         ELSE Some(entry[CHOOSE y \in positive : \A z \in positive : z <= y])

\* The catalogs, titles, entries and years the two are exercised on.
MaxKeys == 2

MaxYears == 3

Tokens == {"HONDA", "AFRICA", "TWIN"}

TitleTokens == Tokens \cup {"BMW"}

Keys == (SUBSET Tokens) \ {{}}

Catalogs == UNION {[1..n -> Keys] : n \in 0..MaxKeys}

Years == 2020..(2019 + MaxYears)

ReferencePrices == {0, 8000, 9000}

Entries == UNION {[ys -> ReferencePrices] : ys \in SUBSET Years}

CallMatch ==
    /\ cat.fn = "match"
    /\ cat.result = None
    /\ cat' = [cat EXCEPT !.result = Some(match(cat.title, cat.catalog))]
    /\ UNCHANGED smp
    /\ UNCHANGED dealVars
    /\ UNCHANGED botVars
    /\ UNCHANGED fileVars
    /\ UNCHANGED uiVars
    /\ UNCHANGED cycle

CallLookup ==
    /\ cat.fn = "lookup"
    /\ cat.result = None
    /\ cat' = [cat EXCEPT !.result = Some(lookup(cat.entry, cat.year))]
    /\ UNCHANGED smp
    /\ UNCHANGED dealVars
    /\ UNCHANGED botVars
    /\ UNCHANGED fileVars
    /\ UNCHANGED uiVars
    /\ UNCHANGED cycle

(***************************************************************************)
(* src/lbc/dotenv.py: load_dotenv.  A text is a sequence of characters, a  *)
(* file a sequence of lines (None when the file does not exist), and       *)
(* os.environ a function from keys to values.                              *)
(***************************************************************************)
Whitespace == {" "}

Quotes == {"'", "\""}

RECURSIVE lstrip(_)
lstrip(s) ==
    IF s # <<>> /\ Head(s) \in Whitespace THEN lstrip(Tail(s)) ELSE s

RECURSIVE rstrip(_)
rstrip(s) ==
    IF s # <<>> /\ s[Len(s)] \in Whitespace
    THEN rstrip(SubSeq(s, 1, Len(s) - 1))
    ELSE s

\* str.strip()
strip(s) == rstrip(lstrip(s))

\* the index of the first "=" of a line, 0 when there is none
find_equals(s) ==
    IF \E i \in 1..Len(s) : s[i] = "="
    THEN CHOOSE i \in 1..Len(s) :
            /\ s[i] = "="
            /\ \A j \in 1..(i - 1) : s[j] # "="
    ELSE 0

\* lines 38-40: a value between two equal quotes loses them
strip_quotes(value) ==
    IF /\ Len(value) >= 2
       /\ value[1] = value[Len(value)]
       /\ value[1] \in Quotes
    THEN SubSeq(value, 2, Len(value) - 1)
    ELSE value

\* lines 27-40: the assignment a line makes, None for a line that is skipped
parse_line(raw_line) ==
    LET line == strip(raw_line)
        eq   == find_equals(line)
        key  == strip(SubSeq(line, 1, eq - 1))
        value == strip(SubSeq(line, eq + 1, Len(line)))
    IN  IF line = <<>> \/ Head(line) = "#" THEN None
        ELSE IF eq = 0 THEN None
        ELSE IF key = <<>> THEN None
        ELSE Some([key |-> key, value |-> strip_quotes(value)])

\* every assignment of the file is applied, whatever the environment holds
set_key_always(env, key, value, override) == Put(env, key, value)

\* lines 42-44: a key of the environment is kept unless override is set
set_key(env, key, value, override) ==
    IF ~override /\ key \in DOMAIN env THEN env ELSE Put(env, key, value)

\* lines 26-44: the loop over the lines, from line i on
RECURSIVE load_lines(_, _, _, _)
load_lines(env, lines, i, override) ==
    IF i > Len(lines) THEN env
    ELSE LET a == parse_line(lines[i])
         IN  load_lines(IF a = None THEN env
                        ELSE set_key(env, Val(a).key, Val(a).value, override),
                        lines, i + 1, override)

IdleDotenv ==
    [pc |-> "idle", file |-> None, override |-> FALSE,
     before |-> <<>>, result |-> None]

\* load_dotenv(path, override=...): one synchronous call
load_dotenv ==
    /\ dotenv.pc = "call"
    /\ IF dotenv.file = None
       THEN /\ dotenv' = [dotenv EXCEPT !.pc = "done", !.result = Some(FALSE)]
            /\ UNCHANGED environ
       ELSE /\ environ' = load_lines(environ, Val(dotenv.file), 1,
                                     dotenv.override)
            /\ dotenv' = [dotenv EXCEPT !.pc = "done", !.result = Some(TRUE)]
    /\ UNCHANGED <<user_wizards, last_message>>
    /\ UNCHANGED dealVars
    /\ UNCHANGED botVars
    /\ UNCHANGED fileVars
    /\ UNCHANGED estVars
    /\ UNCHANGED cycle

(***************************************************************************)
(* discord_bot.py: the creation wizard.  user_wizards maps a user to the   *)
(* step the wizard waits at and to the answers collected so far; a message *)
(* is the text a user typed.  Every handler runs without interruption up   *)
(* to its first await, which comes after its last write to user_wizards.   *)
(***************************************************************************)
MaxUsers == 2

Users == 1..MaxUsers

WizProfiles == 1

LAST_STEP == 7

CATEGORIES == 1..12

REGIONS == 1..10

\* the texts a user types
Contents == {"annuler", " Annuler", "honda", "0", "5", "-1"}

\* message.content.strip()
stripped(raw) == IF raw = " Annuler" THEN "Annuler" ELSE raw

\* content.lower()
lower(content) == IF content = "Annuler" THEN "annuler" ELSE content

\* int(content): None stands for ValueError
int(content) ==
    CASE content = "0"  -> Some(0)
      [] content = "5"  -> Some(5)
      [] content = "-1" -> Some(-1)
      [] OTHER          -> None

\* `n if n > 0 else None`
positive_or_none(n) == IF n > 0 THEN Some(n) ELSE None

\* the key each step stores its answer under
field(step) ==
    CASE step = 1 -> "text"
      [] step = 2 -> "category_id"
      [] step = 3 -> "region_id"
      [] step = 4 -> "price_min"
      [] step = 5 -> "price_max"
      [] step = 6 -> "year_min"
      [] step = 7 -> "year_max"

\* every integer is a category
accepted_any_number(step, content) ==
    IF step = 1 THEN TRUE ELSE int(content) # None

\* whether the step takes the answer: any text at step 1, a listed number
\* at steps 2 and 3 (0 too at step 3), any integer from step 4 on
accepted(step, content) ==
    CASE step = 1 -> TRUE
      [] step = 2 -> int(content) # None /\ Val(int(content)) \in CATEGORIES
      [] step = 3 -> /\ int(content) # None
                     /\ Val(int(content)) \in REGIONS \cup {0}
      [] OTHER    -> int(content) # None

\* what the step stores for an accepted answer
stored(step, content) ==
    CASE step = 1 -> content
      [] step = 2 -> Val(int(content))
      [] step = 3 -> IF Val(int(content)) # 0 THEN int(content) ELSE None
      [] OTHER    -> positive_or_none(Val(int(content)))

NoMessage == [user |-> 0, content |-> "", step |-> 0]

\* !new: the wizard of the user (re)starts at step 1 with no answer
new_search(u) ==
    /\ user_wizards' = Put(user_wizards, u, [step |-> 1, data |-> <<>>])
    /\ last_message' =
          [user |-> u, content |-> "!new",
           step |-> IF u \in DOMAIN user_wizards THEN user_wizards[u].step
                    ELSE 0]
    /\ UNCHANGED <<environ, dotenv>>
    /\ UNCHANGED dealVars
    /\ UNCHANGED botVars
    /\ UNCHANGED fileVars
    /\ UNCHANGED estVars
    /\ UNCHANGED cycle

\* on_message for a text that is no command, and handle_wizard; step 7
\* writes the profile as soon as its answer is taken
on_message(u, raw, max_profiles) ==
    LET content == stripped(raw)
        in_wizard == u \in DOMAIN user_wizards
        step == IF in_wizard THEN user_wizards[u].step ELSE 0
    IN  /\ last_message' = [user |-> u, content |-> raw, step |-> step]
        /\ IF ~in_wizard
           THEN UNCHANGED <<user_wizards, searches, next_id>>
           ELSE IF lower(content) = "annuler"
           THEN /\ user_wizards' = Drop(user_wizards, u)
                /\ UNCHANGED <<searches, next_id>>
           ELSE IF ~accepted(step, content)
           THEN UNCHANGED <<user_wizards, searches, next_id>>
           ELSE IF step < LAST_STEP
           THEN /\ user_wizards' =
                      [user_wizards EXCEPT
                         ![u] = [step |-> step + 1,
                                 data |-> Put(user_wizards[u].data,
                                              field(step),
                                              stored(step, content))]]
                /\ UNCHANGED <<searches, next_id>>
           ELSE /\ next_id <= max_profiles
                /\ searches' = Put(searches, next_id, [active |-> FALSE])
                /\ next_id' = next_id + 1
                /\ user_wizards' = Drop(user_wizards, u)
        /\ UNCHANGED <<ads, seen, task, mon, notified, renotified, lastRun>>
        /\ UNCHANGED <<environ, dotenv>>
        /\ UNCHANGED dealVars
        /\ UNCHANGED fileVars
        /\ UNCHANGED estVars
        /\ UNCHANGED cycle

InitUi ==
    /\ user_wizards = <<>>
    /\ last_message = NoMessage
    /\ environ = <<>>
    /\ dotenv = IdleDotenv

InitEst ==
    /\ smp = IdleSmp
    /\ cat = IdleCat

(***************************************************************************)
(* Specifications.                                                         *)
(*   Spec      the bot with its two coroutines (monitor_loop and a !check  *)
(*             command) interleaving at their awaits, and the commands.    *)
(*   SpecRace  the same on a single profile with more listings.            *)
(*   SpecSeq   runs of one profile that never overlap: !check commands     *)
(*             and monitor.py cycles one after the other, with enough      *)
(*             listings to pass the caps of do_check.                      *)
(***************************************************************************)
RaceProfiles == 1

RaceAds == 2

SeqProfiles == 1

SeqAds == 6

Init ==
    /\ ad_price = 0
    /\ market_price = None
    /\ sources = <<>>
    /\ analysis = None
    /\ InitBot
    /\ InitFile
    /\ InitEst
    /\ InitUi
    /\ cycle = CycleOff

BotNext(max_profiles, max_ads) ==
    \/ Publish(max_ads)
    \/ handle_wizard_save(max_profiles)
    \/ \E sid \in 1..max_profiles : start_search(sid)
    \/ \E sid \in 1..max_profiles : stop_search(sid)
    \/ start_all
    \/ stop_all
    \/ \E sid \in 1..max_profiles : delete_search(sid)
    \/ \E sid \in 1..max_profiles : check_search(sid)
    \/ \E ok \in BOOLEAN : check_search_do_check(ok, FALSE)
    \/ \E ok \in BOOLEAN : monitor_loop(ok, FALSE)
    \/ \E ok \in BOOLEAN : monitor_loop_next(ok, FALSE)
    \/ \E t \in Tasks : SendOk(t, FALSE)
    \/ \E t \in Tasks : SendFail(t, FALSE)

Next == BotNext(MaxProfiles, MaxAds)

Spec == Init /\ [][Next]_vars

NextRace == BotNext(RaceProfiles, RaceAds)

SpecRace == Init /\ [][NextRace]_vars

\* The profile commands and the periodic cycle on a marketplace that has no
\* listing yet, with more profiles.
ProfProfiles == 3

NextProfiles ==
    \/ handle_wizard_save(ProfProfiles)
    \/ \E sid \in 1..ProfProfiles : start_search(sid)
    \/ \E sid \in 1..ProfProfiles : stop_search(sid)
    \/ start_all
    \/ stop_all
    \/ \E sid \in 1..ProfProfiles : delete_search(sid)
    \/ \E sid \in 1..ProfProfiles : check_search(sid)
    \/ \E ok \in BOOLEAN : check_search_do_check(ok, FALSE)
    \/ \E ok \in BOOLEAN : monitor_loop(ok, FALSE)
    \/ \E ok \in BOOLEAN : monitor_loop_next(ok, FALSE)
    \/ \E t \in Tasks : SendOk(t, FALSE)
    \/ \E t \in Tasks : SendFail(t, FALSE)

SpecProfiles == Init /\ [][NextProfiles]_vars

\* No run of a profile is in progress.
NoRun == mon.pc = "idle" /\ \A t \in Tasks : task[t].pc = "idle"

NextSeq ==
    \/ NoRun /\ Publish(SeqAds)
    \/ handle_wizard_save(SeqProfiles)
    \/ \E sid \in 1..SeqProfiles : start_search(sid)
    \/ \E sid \in 1..SeqProfiles : NoRun /\ check_search(sid)
    \/ \E ok \in BOOLEAN : check_search_do_check(ok, TRUE)
    \/ SendOk("cmd", TRUE)
    \/ SendFail("cmd", TRUE)
    \/ NoRun /\ main
    \/ \E ok \in BOOLEAN : process_search_fetch(ok, TRUE)
    \/ \E ok \in BOOLEAN : process_search_ad(ok, TRUE)
    \/ process_search_save(TRUE)

SpecSeq == Init /\ [][NextSeq]_vars

\* The store after the wizard has created one profile.
InitOneProfile ==
    /\ ad_price = 0
    /\ market_price = None
    /\ sources = <<>>
    /\ analysis = None
    /\ ads = <<>>
    /\ searches = <<[active |-> FALSE]>>
    /\ next_id = 2
    /\ seen = <<>>
    /\ task = [t \in Tasks |-> IdleTask]
    /\ mon = IdleMon
    /\ notified = {}
    /\ renotified = {}
    /\ lastRun = <<>>
    /\ InitFile
    /\ InitEst
    /\ InitUi
    /\ cycle = CycleOff

\* The !check command alone on that profile, one check after the other,
\* with enough listings to pass the caps of do_check.
CheckAds == 6

NextCheck ==
    \/ NoRun /\ Publish(CheckAds)
    \/ \E sid \in DOMAIN searches : NoRun /\ check_search(sid)
    \/ \E ok \in BOOLEAN : check_search_do_check(ok, TRUE)
    \/ SendOk("cmd", TRUE)
    \/ SendFail("cmd", TRUE)

SpecCheck == InitOneProfile /\ [][NextCheck]_vars

\* Runs of that profile that never overlap, !check commands and monitor.py
\* cycles, keeping the history of the notifications.
LedgerAds == 4

NextLedger ==
    \/ NoRun /\ Publish(LedgerAds)
    \/ \E sid \in DOMAIN searches : start_search(sid)
    \/ \E sid \in DOMAIN searches : NoRun /\ check_search(sid)
    \/ \E ok \in BOOLEAN : check_search_do_check(ok, FALSE)
    \/ SendOk("cmd", FALSE)
    \/ SendFail("cmd", FALSE)
    \/ NoRun /\ main
    \/ \E ok \in BOOLEAN : process_search_fetch(ok, FALSE)
    \/ \E ok \in BOOLEAN : process_search_ad(ok, FALSE)
    \/ process_search_save(FALSE)

SpecLedger == InitOneProfile /\ [][NextLedger]_vars

\* monitor.py cycles on one active profile, with listings priced around the
\* thresholds of the classifier for an estimate of 11000 or 13000.
E2EAds == 2

E2EKinds ==
    {[price |-> p, est |-> e] :
        p \in {5000, 8000}, e \in {None, Some(11000), Some(13000)}}

InitE2E ==
    /\ ad_price = 0
    /\ market_price = None
    /\ sources = <<>>
    /\ analysis = None
    /\ ads = <<>>
    /\ searches = <<[active |-> TRUE]>>
    /\ next_id = 2
    /\ seen = <<>>
    /\ task = [t \in Tasks |-> IdleTask]
    /\ mon = IdleMon
    /\ notified = {}
    /\ renotified = {}
    /\ lastRun = <<>>
    /\ InitFile
    /\ InitEst
    /\ InitUi
    /\ cycle = CycleOff

NextE2E ==
    \/ NoRun /\ PublishOf(E2EAds, E2EKinds)
    \/ NoRun /\ main
    \/ \E ok \in BOOLEAN : process_search_fetch(ok, TRUE)
    \/ \E ok \in BOOLEAN : process_search_ad(ok, TRUE)
    \/ process_search_save(TRUE)

SpecE2E == InitE2E /\ [][NextE2E]_vars

\* The same runs when the write of the ledger can fail.
PersistAds == 2

Quiet == mon.pc \in {"idle", "crashed"} /\ \A t \in Tasks : task[t].pc = "idle"

NextPersist ==
    \/ Quiet /\ Publish(PersistAds)
    \/ \E sid \in DOMAIN searches : start_search(sid)
    \/ \E sid \in DOMAIN searches : Quiet /\ check_search(sid)
    \/ \E ok \in BOOLEAN : check_search_do_check(ok, FALSE)
    \/ SendOk("cmd", FALSE)
    \/ SendFail("cmd", FALSE)
    \/ \E opened \in BOOLEAN : SendOkSaveRaises("cmd", opened, FALSE)
    \/ Quiet /\ main
    \/ \E ok \in BOOLEAN : process_search_fetch(ok, FALSE)
    \/ \E ok \in BOOLEAN : process_search_ad(ok, FALSE)
    \/ process_search_save(FALSE)
    \/ \E opened \in BOOLEAN : process_search_save_raises(opened, FALSE)

SpecPersist == InitOneProfile /\ [][NextPersist]_vars

(***************************************************************************)
(* The classifier on its own: any asking price, any estimate (or none),    *)
(* any source list; one call.                                              *)
(***************************************************************************)
InitDeal ==
    /\ ad_price \in Prices
    /\ market_price \in {None} \cup {Some(m) : m \in Prices}
    /\ sources \in SourceLists
    /\ analysis = None
    /\ InitBot
    /\ InitFile
    /\ InitEst
    /\ InitUi
    /\ cycle = CycleOff

CallAnalyzeDeal ==
    /\ analysis = None
    /\ analysis' = Some(analyze_deal(ad_price, market_price, sources))
    /\ UNCHANGED <<ad_price, market_price, sources>>
    /\ UNCHANGED botVars
    /\ UNCHANGED fileVars
    /\ UNCHANGED estVars
    /\ UNCHANGED uiVars
    /\ UNCHANGED cycle

NextDeal == CallAnalyzeDeal

SpecDeal == InitDeal /\ [][NextDeal]_vars

(***************************************************************************)
(* load_seen_ads on its own: any file, one call.                           *)
(***************************************************************************)
InitLoad ==
    /\ ad_price = 0
    /\ market_price = None
    /\ sources = <<>>
    /\ analysis = None
    /\ InitBot
    /\ seen_file \in SeenFiles
    /\ load_result = None
    /\ InitEst
    /\ InitUi
    /\ cycle = CycleOff

CallLoadSeenAds ==
    /\ load_result = None
    /\ load_result' = Some(load_seen_ads_file(seen_file))
    /\ UNCHANGED seen_file
    /\ UNCHANGED dealVars
    /\ UNCHANGED botVars
    /\ UNCHANGED estVars
    /\ UNCHANGED uiVars
    /\ UNCHANGED cycle

NextLoad == CallLoadSeenAds

SpecLoad == InitLoad /\ [][NextLoad]_vars

(***************************************************************************)
(* search_market_price on its own: one call, any answers of the provider   *)
(* (SpecSmp); and its aggregation of any list of collected prices         *)
(* (SpecMedian), on a state of the call in which the second query has      *)
(* just given its last result.                                             *)
(***************************************************************************)
InitSmp ==
    /\ ad_price = 0
    /\ market_price = None
    /\ sources = <<>>
    /\ analysis = None
    /\ InitBot
    /\ InitFile
    /\ InitUi
    /\ cycle = CycleOff
    /\ smp = [IdleSmp EXCEPT !.pc = "query"]
    /\ cat = IdleCat

NextSmp ==
    \/ \E ok \in BOOLEAN : ddgs_text(ok)
    \/ \E href \in HrefChoices : next_result(href)
    \/ \E price \in MatchValues : next_match(price)
    \/ matches_end
    \/ results_end

SpecSmp == InitSmp /\ [][NextSmp]_vars

MaxMedianLen == 5

MedianValues == {500, 1000, 1050, 1080, 1100, 9000, 80000}

PriceLists == UNION {[1..n -> MedianValues] : n \in 0..MaxMedianLen}

InitMedian ==
    /\ ad_price = 0
    /\ market_price = None
    /\ sources = <<>>
    /\ analysis = None
    /\ InitBot
    /\ InitFile
    /\ InitUi
    /\ cycle = CycleOff
    /\ \E prices \in PriceLists :
          smp = [IdleSmp EXCEPT
                   !.pc = "results", !.issued = <<1, 2>>, !.at_issue = <<0, 0>>,
                   !.n = Len(prices), !.prices = prices,
                   !.contributors = IF prices = <<>> THEN {} ELSE {""}]
    /\ cat = IdleCat

NextMedian == results_end

SpecMedian == InitMedian /\ [][NextMedian]_vars

(***************************************************************************)
(* The catalog matcher and the local lookup on their own: any title        *)
(* against any catalog, any entry with any requested year; one call.       *)
(***************************************************************************)
InitMatch ==
    /\ ad_price = 0
    /\ market_price = None
    /\ sources = <<>>
    /\ analysis = None
    /\ InitBot
    /\ InitFile
    /\ InitUi
    /\ cycle = CycleOff
    /\ smp = IdleSmp
    /\ \E title \in SUBSET TitleTokens, catalog \in Catalogs :
          cat = [fn |-> "match", title |-> title, catalog |-> catalog,
                 result |-> None]

NextMatch == CallMatch

SpecMatch == InitMatch /\ [][NextMatch]_vars

InitLookup ==
    /\ ad_price = 0
    /\ market_price = None
    /\ sources = <<>>
    /\ analysis = None
    /\ InitBot
    /\ InitFile
    /\ InitUi
    /\ cycle = CycleOff
    /\ smp = IdleSmp
    /\ \E entry \in Entries, year \in {None} \cup {Some(y) : y \in Years} :
          cat = [fn |-> "lookup", entry |-> entry, year |-> year,
                 result |-> None]

NextLookup == CallLookup

SpecLookup == InitLookup /\ [][NextLookup]_vars

(***************************************************************************)
(* Claims about the classifier, checked under SpecDeal.                    *)
(***************************************************************************)
Analyzed == analysis # None

\* The profit ratio is within the cap as analyze_deal takes it: for a
\* positive asking price (m - a) / a <= 2.0; for an asking price <= 0 the
\* code takes the ratio as 0, which is within the cap.
RatioWithinCap == ad_price > 0 => Val(market_price) - ad_price <= 2 * ad_price

C7_NeverGoodBelowMinimum ==
    (Analyzed /\ 0 <= ad_price /\ ad_price < MIN_AD_PRICE) =>
        ~Val(analysis).is_good_deal

\* C8: when the estimate is none, analyze_deal returns is_good_deal = FALSE,
\* market_price = none and potential_profit = none, for every asking price
\* and every source list (which is passed through).
C8_NoEstimateNoDeal ==
    (Analyzed /\ market_price = None) =>
        /\ ~Val(analysis).is_good_deal
        /\ Val(analysis).market_price = None
        /\ Val(analysis).potential_profit = None
        /\ Val(analysis).price_sources = sources
        /\ Val(analysis).ad_price = ad_price

\* C8 witness: a call without estimate, with a non-empty source list.
C8_Witness ==
    /\ Analyzed /\ market_price = None /\ ad_price = 2000
    /\ sources = <<"url1">>
    /\ Val(analysis).reason = "impossible_d_estimer"

C1_SecondRunFindsNothing ==
    /\ \A t \in Tasks :
          task[t].rerun =>
              /\ task[t].pepites = <<>>
              /\ task[t].normal_ads = <<>>
              /\ task[t].pc \notin {"send_pepite", "send_normal"}
    /\ mon.rerun => mon.new_ads = <<>>

\* C2 (checked under SpecSeq): after a run has returned normally, every
\* listing that was new in it is in the persisted seen set of the profile.
C2_NewListingsPersisted ==
    \A sid \in DOMAIN lastRun : lastRun[sid].new \subseteq load_seen_ads(sid)

\* C3 (checked under SpecSeq): the listings that do_check did not notify
\* individually because a cap of 5 was reached (good deals after the 5th,
\* normal listings after the 5th) are in the seen set it persisted.
C3_CappedListingsPersisted ==
    \A sid \in DOMAIN lastRun : lastRun[sid].capped \subseteq load_seen_ads(sid)

\* C4 (checked under SpecRace): the persisted seen set of a profile never
\* shrinks: no step removes an id from the seen store of a profile that the
\* step does not delete.
C4_SeenNeverShrinks ==
    [][\A sid \in DOMAIN seen :
          sid \in DOMAIN searches' =>
              (sid \in DOMAIN seen' /\ seen[sid] \subseteq seen'[sid])]_vars

\* C9 (checked under Spec): no listing is individually notified twice for
\* the same profile, also when a manual !check and the periodic
\* monitor_loop are triggered close together.
C9_NoDoubleNotification == renotified = {}

\* C10 (checked under Spec): a periodic cycle fetches listings only for
\* profiles whose active flag is true in the store at the moment of the
\* fetch.
C10_CycleFetchesOnlyActive == ~task["loop"].inactive_at_fetch

(***************************************************************************)
(* Claims about failures.                                                  *)
(***************************************************************************)
\* C11 (checked under Spec): whatever fails while one profile is processed,
\* the sending of the error message included, the cycle does not end with
\* active profiles of its snapshot left unprocessed.
C11_CycleNeverAbandonsProfiles ==
    task["loop"].pc = "stopped" => task["loop"].queue = {}

\* C12 (checked under Spec): when the fetch of a profile has failed, the
\* run emits no listing notification and leaves the seen store unchanged,
\* and the cycle goes on to the next profile of its snapshot.
C12_FetchFailureSkipsProfile ==
    [][\A t \in Tasks :
          (task[t].fetch_failed /\ task'[t] # task[t]) =>
              /\ notified' = notified
              /\ seen' = seen
              /\ (t = "loop" /\ task[t].queue # {}) =>
                    /\ task'[t].pc = "sleep_between"
                    /\ task'[t].queue = task[t].queue]_vars

\* C13 (checked under SpecSeq): a failed notification of a listing is not
\* fatal to the run.  After the notification of a listing, sent or failed,
\* the run goes on with the remaining listings or persists its ledger and
\* returns; it never leaves through the error exit.  In process_search the
\* listing is marked seen either way and the ledger is saved at the end.
C13_NotifierFailureNonFatal ==
    [][/\ \A t \in Tasks :
             (task[t].pc \in {"send_pepite", "send_normal"}
                 /\ task'[t] # task[t]) =>
                 \/ task'[t].pc \in {"send_pepite", "send_normal",
                                     "send_normal_header", "send_more"}
                 \/ /\ task'[t].pc \in {"idle", "sleep_between"}
                    /\ task[t].sid \in DOMAIN seen'
                    /\ task[t].seen_ids \subseteq seen'[task[t].sid]
       /\ (mon.pc = "ad" /\ mon' # mon) =>
             /\ mon'.pc \in {"ad", "save"}
             /\ mon.new_ads[mon.k] \in mon'.seen_ids
       /\ (mon.pc = "save" /\ mon' # mon) =>
             /\ mon.sid \in DOMAIN seen'
             /\ seen'[mon.sid] = mon.seen_ids]_vars

\* C14 (checked under SpecLoad): loading a seen set never fails: a missing,
\* unreadable or corrupt store yields the empty set.
C14_LoadNeverFails ==
    load_result # None =>
        /\ Val(load_result).raised = ""
        /\ seen_file.kind # "ok" => Val(load_result).value = {}

(***************************************************************************)
(* Claims about the ledger and the profile store.                          *)
(***************************************************************************)
\* The seen store of profile sid is written by the step.
LedgerWritten(sid) ==
    /\ sid \in DOMAIN seen'
    /\ sid \notin DOMAIN seen \/ seen'[sid] # seen[sid]

C16_DeletedIsTerminal ==
    \A sid \in 1..(next_id - 1) :
        sid \notin DOMAIN searches => sid \notin DOMAIN seen

\* C17 (checked under SpecProfiles): a profile created by the wizard starts
\* inactive, and a periodic cycle polls only profiles that were active in
\* the store when the cycle began: the first profile and the queue of a
\* cycle are taken among them, and every later profile of the cycle comes
\* out of that queue.  A profile that was never started, or was stopped
\* before the cycle began, is not polled by it.
C17_OnlyStartedProfilesPolled ==
    [][/\ \A sid \in DOMAIN searches' \ DOMAIN searches :
             ~searches'[sid].active
       /\ (task["loop"].pc = "idle" /\ task'["loop"].pc # "idle") =>
             ({task'["loop"].sid} \cup task'["loop"].queue)
                 \subseteq {sid \in DOMAIN searches : searches[sid].active}
       /\ (task["loop"].pc = "sleep_between"
              /\ task'["loop"].pc \notin {"sleep_between", "idle"}) =>
             /\ task'["loop"].sid \in task["loop"].queue
             /\ task'["loop"].queue
                    \subseteq task["loop"].queue \ {task'["loop"].sid}]_vars

\* C17 witness: a cycle is polling profile 1 while profile 2 exists,
\* inactive, and is not part of the cycle.
C17_Witness ==
    /\ task["loop"].pc \in SendPcs
    /\ task["loop"].sid = 1
    /\ 2 \in DOMAIN searches
    /\ ~searches[2].active
    /\ 2 \notin task["loop"].queue

\* C18 (checked under SpecProfiles): profile ids are never reused.  next_id
\* never decreases, every profile of the store has an id below next_id, and
\* a newly created profile gets the id next_id had, which is therefore
\* different from the id of every profile created before it, deleted or not.
C18_IdsNeverReused ==
    [][/\ next_id' >= next_id
       /\ \A sid \in DOMAIN searches : sid < next_id
       /\ \A sid \in DOMAIN searches' \ DOMAIN searches :
             sid >= next_id /\ sid < next_id']_vars

\* C18 witness: profile 1 was created and deleted, and the store holds a
\* profile with the next id.
C18_Witness ==
    /\ next_id = 3
    /\ DOMAIN searches = {2}

(***************************************************************************)
(* Claims about the notifications of one check.                            *)
(***************************************************************************)
\* C19 (checked under SpecCheck): in do_check every notification of a good
\* deal is emitted before any notification of the normal tier, at most 5
\* good deals and at most 5 normal listings are individually notified, and
\* each notified listing is notified once: the listings of the two tiers
\* are pairwise different, the position notified in a tier is within 1..5
\* and only moves forward, and no good deal follows a normal message.
C19_TiersOrderedAndCapped ==
    [][\A t \in Tasks :
          LET l == task[t] IN
          /\ l.pc = "send_pepite" => l.k \in 1..5 /\ l.k <= Len(l.pepites)
          /\ l.pc = "send_normal" => l.k \in 1..5 /\ l.k <= Len(l.normal_ads)
          /\ \A i, j \in 1..Len(l.pepites) :
                i # j => l.pepites[i] # l.pepites[j]
          /\ \A i, j \in 1..Len(l.normal_ads) :
                i # j => l.normal_ads[i].ad # l.normal_ads[j].ad
          /\ \A i \in 1..Len(l.pepites) : \A j \in 1..Len(l.normal_ads) :
                l.pepites[i] # l.normal_ads[j].ad
          /\ l.pc \in {"send_normal_header", "send_normal", "send_more"} =>
                task'[t].pc \notin {"send_pepite_header", "send_pepite"}
          /\ (l.pc = "send_pepite" /\ task'[t].pc = "send_pepite"
                 /\ task'[t] # l) =>
                task'[t].k > l.k
          /\ (l.pc = "send_normal" /\ task'[t].pc = "send_normal"
                 /\ task'[t] # l) =>
                task'[t].k > l.k]_vars

\* C19 witness: five good deals have been notified and the check is
\* sending the first listing of the normal tier.
C19_Witness ==
    /\ task["cmd"].pc = "send_normal"
    /\ Len(task["cmd"].pepites) = 5
    /\ task["cmd"].k = 1

\* C20 (checked under SpecCheck): whenever a check leaves new listings
\* without an individual notification because of a cap, one of its messages
\* states a count that is the number of new listings it did not notify
\* individually (those left out by the caps, or all of them).
C20_CapSummaryCount ==
    \A sid \in DOMAIN lastRun :
        lastRun[sid].capped # {} =>
            \/ Cardinality(lastRun[sid].capped) \in lastRun[sid].summary
            \/ lastRun[sid].unnotified \in lastRun[sid].summary


(***************************************************************************)
(* Claims about a failing write of the ledger, checked under SpecPersist.  *)
(***************************************************************************)
\* C21: when the write of a profile's ledger fails, the failure is contained
\* (the run ends as a run does, the cycle goes on) and the persisted seen
\* set of the profile is what it was before the run, so that the next cycle
\* loads it and finds the same listings new.
Persisted(store, sid) == IF sid \in DOMAIN store THEN store[sid] ELSE {}

C21_WriteFailureKeepsLedger ==
    [][/\ (mon.pc = "save" /\ mon'.save_failed) =>
            /\ mon'.pc # "crashed"
            /\ Persisted(seen', mon.sid) = Persisted(seen, mon.sid)
       /\ \A t \in Tasks :
            (~task[t].save_failed /\ task'[t].save_failed) =>
                /\ task'[t].pc \in {"idle", "send_error"}
                /\ Persisted(seen', task[t].sid) = Persisted(seen, task[t].sid)]_vars

(***************************************************************************)
(* Claims about search_market_price, checked under SpecSmp and SpecMedian. *)
(***************************************************************************)
Returned == smp.pc = "done" /\ smp.ret # None

\* C22: every non-null price that search_market_price returns lies in
\* [500, 80000], and so does every candidate it has collected.
C22_EstimateInRange ==
    /\ \A i \in 1..Len(smp.prices) :
          500 <= smp.prices[i] /\ smp.prices[i] <= 80000
    /\ (Returned /\ Val(smp.ret).price_x2 # None) =>
          /\ 2 * 500 <= Val(Val(smp.ret).price_x2)
          /\ Val(Val(smp.ret).price_x2) <= 2 * 80000

\* A price came back although matches on both sides of the range were left
\* out: the median of 500 and 80000.
C22_Witness ==
    /\ Returned
    /\ smp.rejected
    /\ Val(smp.ret).price_x2 = Some(500 + 80000)

\* The k-th smallest price of a list, by counting.
KthSmallest(s, k) ==
    CHOOSE v \in {s[i] : i \in 1..Len(s)} :
        /\ Cardinality({i \in 1..Len(s) : s[i] < v}) < k
        /\ k <= Cardinality({i \in 1..Len(s) : s[i] <= v})

\* Twice the median of a non-empty list.
MedianTimes2(s) ==
    IF Len(s) % 2 = 1 THEN 2 * KthSmallest(s, (Len(s) + 1) \div 2)
    ELSE KthSmallest(s, Len(s) \div 2) + KthSmallest(s, (Len(s) \div 2) + 1)

\* C23: with n >= 4 collected prices the estimate is the median of those p
\* with Q1 - 1.5 * IQR <= p <= Q3 + 1.5 * IQR, where Q1 = sorted[n div 4],
\* Q3 = sorted[3n div 4] (indexed from 0) and IQR = Q3 - Q1; with fewer
\* than 4 it is the median of all; [1000, 1050, 1100, 1080, 9000] gives 1065.
C23_MedianAfterIqr ==
    (Returned /\ smp.prices # <<>>) =>
        LET p == smp.prices
            n == Len(p)
            Q1 == KthSmallest(p, (n \div 4) + 1)
            Q3 == KthSmallest(p, ((3 * n) \div 4) + 1)
            within == SelectSeq(p, LAMBDA x :
                         /\ 2 * Q1 - 3 * (Q3 - Q1) <= 2 * x
                         /\ 2 * x <= 2 * Q3 + 3 * (Q3 - Q1))
        IN /\ Val(smp.ret).price_x2 =
                 Some(MedianTimes2(IF n >= 4 THEN within ELSE p))
           /\ p = <<1000, 1050, 1100, 1080, 9000>> =>
                 Val(smp.ret).price_x2 = Some(2 * 1065)

C23_Witness ==
    /\ Returned
    /\ smp.prices = <<1000, 1050, 1100, 1080, 9000>>
    /\ Val(smp.ret).price_x2 = Some(2130)

\* C37 (checked under SpecMedian): the IQR filter never removes every
\* candidate: whenever at least one price in range was collected and the
\* provider raised no error, the returned price is non-null and lies
\* between the smallest and the largest collected candidate.
C37_FilterKeepsSomething ==
    (Returned /\ smp.prices # <<>> /\ ~smp.raised) =>
        LET p == smp.prices
            ret == Val(smp.ret).price_x2
        IN /\ ret # None
           /\ \A i \in 1..Len(p) :
                 (\A j \in 1..Len(p) : p[i] <= p[j]) => 2 * p[i] <= Val(ret)
           /\ \A i \in 1..Len(p) :
                 (\A j \in 1..Len(p) : p[j] <= p[i]) => Val(ret) <= 2 * p[i]

\* C37 witness: four equal candidates (IQR = 0, both bounds equal to the
\* price itself) are all kept and their value is returned.
C37_Witness ==
    /\ Returned
    /\ smp.prices = <<1000, 1000, 1000, 1000>>
    /\ Val(smp.ret).price_x2 = Some(2000)

\* C24: when the provider raises on a query, search_market_price returns
\* (None, []), whatever the earlier queries of the call had collected.
C24_ProviderErrorYieldsNothing ==
    smp.raised =>
        /\ Returned
        /\ Val(smp.ret) = [price_x2 |-> None, sources |-> <<>>]

\* The second query raised after the first had given prices and a source.
C24_Witness ==
    /\ smp.raised
    /\ smp.issued = <<1, 2>>
    /\ smp.prices # <<>>
    /\ smp.sources # <<>>

\* C25: the sources returned with a price are at most 3, pairwise distinct,
\* and each is the href of a result a price in range was collected from.
C25_SourcesCappedDistinct ==
    (Returned /\ Val(smp.ret).price_x2 # None) =>
        LET srcs == Val(smp.ret).sources IN
        /\ Len(srcs) <= 3
        /\ \A i, j \in 1..Len(srcs) : i # j => srcs[i] # srcs[j]
        /\ \A i \in 1..Len(srcs) : srcs[i] \in smp.contributors

\* Four results with four hrefs gave a price; three hrefs are returned.
C25_Witness ==
    /\ Returned
    /\ Val(smp.ret).price_x2 # None
    /\ Cardinality(smp.contributors \ {""}) = 4
    /\ Len(Val(smp.ret).sources) = 3

\* C26: the queries are issued in order, at most 2 of them, and a query
\* after the first is issued only with fewer than 5 prices collected.
C26_QueriesStopAtFive ==
    /\ Len(smp.issued) <= 2
    /\ \A i \in 1..Len(smp.issued) :
          /\ smp.issued[i] = i
          /\ i > 1 => smp.at_issue[i] < 5

\* The first query gave 5 prices or more and the call returned without a
\* second one.
C26_Witness ==
    /\ Returned
    /\ ~smp.raised
    /\ smp.issued = <<1>>
    /\ Len(smp.prices) >= 5

(***************************************************************************)
(* The end-to-end example, checked under SpecE2E.                          *)
(***************************************************************************)
\* The fetch of the run in progress returned one listing, new, at 8000 with
\* an estimate of 11000.
E2EScenario ==
    /\ ads = <<[price |-> 8000, est |-> Some(11000)]>>
    /\ mon.sid = 1
    /\ mon.new_ads = <<1>>
    /\ load_seen_ads(1) = {}

\* C27: for an active profile whose fetch returns a single new listing at
\* 8000 with an estimate of 11000, the run classifies it as not a good deal
\* (profit 3000 < required 4800), counts no pepite, and the persisted
\* ledger after the run is exactly that listing.
C27_EndToEndNormalTier ==
    [][(E2EScenario /\ mon.pc = "save" /\ mon'.pc # "save") =>
          /\ market_of(1) # None
          /\ Val(market_of(1)).potential_profit = Some(3000)
          /\ min_required_profit_x100(8000) = 100 * 4800
          /\ ~Val(market_of(1)).is_good_deal
          /\ mon.pepite_count = 0
          /\ seen' = <<{1}>>]_vars

\* The run of the scenario has returned and its ledger is on disk.
C27_Witness ==
    /\ ads = <<[price |-> 8000, est |-> Some(11000)]>>
    /\ mon.pc = "idle"
    /\ 1 \in DOMAIN lastRun
    /\ lastRun[1].new = {1}
    /\ seen = <<{1}>>

(***************************************************************************)
(* The docstring of analyze_deal, checked under SpecDeal.                  *)
(***************************************************************************)
\* C28: analyze_deal follows the rule of its docstring, "Prix_Marche >
\* (Prix_Annonce * 1.6) + 1000": with an estimate, is_good_deal is TRUE
\* exactly when market_price > ad_price * 1.6 + 1000 (compared in tenths).
C28_DocstringRule ==
    (Analyzed /\ market_price # None) =>
        (Val(analysis).is_good_deal
            <=> 10 * Val(market_price) > 16 * ad_price + 10 * 1000)

(***************************************************************************)
(* Claims about the catalog, checked under SpecLookup and SpecMatch.       *)
(***************************************************************************)
\* The years of an entry before the requested one that hold a positive
\* price.
PriorPositiveYears(entry, year) ==
    {y \in DOMAIN entry : y < year /\ entry[y] > 0}

\* C29: a lookup with a requested year whose value is zero or absent
\* returns the price of the most recent prior year with a positive value;
\* for {2020: 8000, 2021: 0, 2022: 9000} and 2021 it returns 8000.
C29_NearestPriorYear ==
    (cat.fn = "lookup" /\ cat.result # None /\ cat.year # None) =>
        LET year == Val(cat.year)
            prior == PriorPositiveYears(cat.entry, year)
        IN ((year \notin DOMAIN cat.entry \/ cat.entry[year] = 0) /\ prior # {}) =>
              Val(cat.result) =
                  Some(cat.entry[CHOOSE y \in prior : \A z \in prior : z <= y])

\* The tokens a key shares with a title.
Shared(key, title) == Cardinality(key \cap title)

\* C30: the matcher returns a key only when its score (shared tokens, plus
\* 10 when the title has all of them) is at least 2 and maximal over the
\* catalog; a title that shares fewer than 2 tokens with every key, and any
\* title against an empty catalog, gives none.
C30_MatchNeedsTwoTokens ==
    (cat.fn = "match" /\ cat.result # None) =>
        LET r == Val(cat.result)
            points(key) == Shared(key, cat.title)
                              + (IF key \subseteq cat.title THEN 10 ELSE 0)
        IN /\ r # None =>
                 /\ points(Val(r)) >= 2
                 /\ \A i \in 1..Len(cat.catalog) :
                       points(cat.catalog[i]) <= points(Val(r))
           /\ (\A i \in 1..Len(cat.catalog) :
                    Shared(cat.catalog[i], cat.title) < 2) => r = None
           /\ cat.catalog = <<>> => r = None

(***************************************************************************)
(* load_dotenv on its own: any environment, any file of a few lines (or no *)
(* file), either value of override; one call.                              *)
(***************************************************************************)
MaxFileLines == 3

EnvKeys == {<<"K">>, <<"L">>}

EnvValues == {<<"x">>, <<"z">>}

\* the lines a file is made of: plain, padded, quoted, and skipped ones
DotenvLines ==
    { <<"K", "=", "x">>,
      <<"K", "=", "y">>,
      <<"L", "=", "x">>,
      <<" ", "L", " ", "=", " ", "y", " ">>,
      <<"K", "=", "'", "y", "'">>,
      <<"L", "=", "\"", "x", "\"">>,
      <<"K", "=", "'", "x", "\"">>,
      <<"L", "=", "x", "=", "y">>,
      <<"L", "=">>,
      <<"#", "K", "=", "x">>,
      <<"K">>,
      <<"=", "x">>,
      <<" ">>,
      <<>> }

Environments ==
    UNION { [keys -> EnvValues] : keys \in SUBSET EnvKeys }

DotenvFiles ==
    {None} \cup
    { Some(f) : f \in UNION { [1..n -> DotenvLines] : n \in 0..MaxFileLines } }

InitDotenv ==
    /\ ad_price = 0
    /\ market_price = None
    /\ sources = <<>>
    /\ analysis = None
    /\ InitBot
    /\ InitFile
    /\ InitEst
    /\ user_wizards = <<>>
    /\ last_message = NoMessage
    /\ cycle = CycleOff
    /\ \E env \in Environments, file \in DotenvFiles, override \in BOOLEAN :
          /\ environ = env
          /\ dotenv = [pc |-> "call", file |-> file, override |-> override,
                       before |-> env, result |-> None]

NextDotenv == load_dotenv

SpecDotenv == InitDotenv /\ [][NextDotenv]_vars

(***************************************************************************)
(* Claims about load_dotenv, checked under SpecDotenv.                     *)
(***************************************************************************)
\* the lines of the file that assign the key, in file order
Occurrences(file, key) ==
    { i \in 1..Len(file) :
         parse_line(file[i]) # None /\ Val(parse_line(file[i])).key = key }

FirstOccurrence(file, key) ==
    CHOOSE i \in Occurrences(file, key) :
        \A j \in Occurrences(file, key) : i <= j

AssignedKeys(file) ==
    { Val(parse_line(file[i])).key :
         i \in { j \in 1..Len(file) : parse_line(file[j]) # None } }

\* C31: without override, load_dotenv leaves every key that was already in
\* the environment at its prior value and gives every other key of the file
\* the value of its first occurrence; keys the file does not assign are not
\* created.  When the file does not exist the call returns False and the
\* environment is unchanged.
C31_FirstOccurrenceNoOverride ==
    dotenv.pc = "done" =>
       /\ dotenv.file = None =>
             /\ dotenv.result = Some(FALSE)
             /\ environ = dotenv.before
       /\ (dotenv.file # None /\ ~dotenv.override) =>
             LET file == Val(dotenv.file) IN
             /\ dotenv.result = Some(TRUE)
             /\ DOMAIN environ = DOMAIN dotenv.before \cup AssignedKeys(file)
             /\ \A key \in DOMAIN dotenv.before :
                   environ[key] = dotenv.before[key]
             /\ \A key \in AssignedKeys(file) \ DOMAIN dotenv.before :
                   environ[key] =
                      Val(parse_line(file[FirstOccurrence(file, key)])).value

\* a call without override on a file that assigns one key twice with
\* different values and assigns a key the environment already holds
C31_Witness ==
    /\ dotenv.pc = "done"
    /\ dotenv.file # None
    /\ ~dotenv.override
    /\ LET file == Val(dotenv.file) IN
       /\ \E key \in AssignedKeys(file) \ DOMAIN dotenv.before :
             \E i, j \in Occurrences(file, key) :
                /\ i < j
                /\ Val(parse_line(file[i])).value
                      # Val(parse_line(file[j])).value
       /\ \E key \in AssignedKeys(file) \cap DOMAIN dotenv.before :
             Val(parse_line(file[FirstOccurrence(file, key)])).value
                # dotenv.before[key]

(***************************************************************************)
(* One check of a profile whose ledger is empty, on any fetch of up to     *)
(* NotifyAds listings, among them listings whose analysis raises; the      *)
(* history of the notifications is kept.  Once a check has notified a      *)
(* listing or written the ledger nothing is published and no other check   *)
(* is started.                                                             *)
(***************************************************************************)
NotifyAds == 6

NotifyKinds ==
    AdKinds \cup {[price |-> 2000, est |-> Some(3200), raises |-> TRUE]}

NextNotify ==
    \/ NoRun /\ notified = {} /\ seen = <<>>
          /\ PublishOf(NotifyAds, NotifyKinds)
    \/ \E sid \in DOMAIN searches :
          NoRun /\ notified = {} /\ seen = <<>> /\ check_search(sid)
    \/ \E ok \in BOOLEAN : check_search_do_check(ok, FALSE)
    \/ SendOk("cmd", FALSE)
    \/ SendFail("cmd", FALSE)

SpecNotify == InitOneProfile /\ [][NextNotify]_vars

(***************************************************************************)
(* Claims about which listings one check notifies, checked under           *)
(* SpecNotify.                                                             *)
(***************************************************************************)
\* the good deals of the fetch, in fetch order
GoodDeals == SelectSeq(FetchResult, is_pepite)

\* the other listings of the fetch, in fetch order
NormalList == SelectSeq(FetchResult, LAMBDA id : ~is_pepite(id))

\* no analysis result: no price, or the analysis raised
NoAnalysisResult(id) == ads[id].price = 0 \/ analysis_raises(id)

\* the first 5 good deals, and the listings without analysis result among
\* the first 5 entries of the normal list
Eligible ==
    {GoodDeals[i] : i \in 1..Min(5, Len(GoodDeals))}
       \cup {NormalList[i] :
               i \in {j \in 1..Min(5, Len(NormalList)) :
                         NoAnalysisResult(NormalList[j])}}

\* the check of the command ends in this step, its fetch having succeeded
CheckEnds ==
    /\ task["cmd"].pc \notin {"idle", "send_verif"}
    /\ ~task["cmd"].fetch_failed
    /\ task'["cmd"].pc = "idle"

\* C32: when a do_check whose fetch succeeded ends, the listings it has
\* individually notified are exactly the first 5 good deals and the
\* listings without analysis result (no price, or the analysis raised)
\* among the first 5 entries of the normal list; in particular a listing
\* of the normal list that has an analysis result is not notified.
C32_NotifiedIffEligible ==
    [][CheckEnds =>
          {p[2] : p \in {q \in notified' : q[1] = task["cmd"].sid}}
             = Eligible]_vars

\* the same, for the checks none of whose sends raised
NotifiedIffEligibleUnlessSendRaises ==
    [][(CheckEnds /\ task["cmd"].pc # "send_error") =>
          {p[2] : p \in {q \in notified' : q[1] = task["cmd"].sid}}
             = Eligible]_vars

(***************************************************************************)
(* The creation wizard on its own: MaxUsers users who start wizards and    *)
(* type answers in any order, until WizProfiles profiles are written.      *)
(***************************************************************************)
NextWizard ==
    \/ \E u \in Users : new_search(u)
    \/ \E u \in Users, raw \in Contents : on_message(u, raw, WizProfiles)

SpecWizard == Init /\ [][NextWizard]_vars

(***************************************************************************)
(* Claims about the wizard, checked under SpecWizard.                      *)
(***************************************************************************)
\* the answer is the cancel word
IsCancel(raw) == raw \in {"annuler", " Annuler"}

\* the answer is a number
IsNumber(raw) == raw \in {"0", "5", "-1"}

NumberOf(raw) == CASE raw = "0" -> 0 [] raw = "5" -> 5 [] raw = "-1" -> 0 - 1

\* a valid answer of a step: any text at step 1, the number of a category
\* at step 2, 0 or the number of a region at step 3, a number afterwards
ValidAnswer(step, raw) ==
    /\ ~IsCancel(raw)
    /\ step = 2 => IsNumber(raw) /\ NumberOf(raw) \in 1..12
    /\ step = 3 => IsNumber(raw) /\ NumberOf(raw) \in 0..10
    /\ step \in 4..7 => IsNumber(raw)

\* the profile store is left as it was
StoreUntouched == searches' = searches /\ next_id' = next_id

\* exactly one profile is added to the store
OneProfileWritten ==
    /\ Cardinality(DOMAIN searches') = Cardinality(DOMAIN searches) + 1
    /\ \A sid \in DOMAIN searches :
          sid \in DOMAIN searches' /\ searches'[sid] = searches[sid]

\* the wizards of the other users are left as they were
OthersUntouched(u) ==
    \A o \in Users \ {u} :
        /\ o \in DOMAIN user_wizards' <=> o \in DOMAIN user_wizards
        /\ o \in DOMAIN user_wizards => user_wizards'[o] = user_wizards[o]

\* C33: the wizard is a 7-step state machine per user.  A wizard waits at a
\* step of 1..7 with the answers of the steps before it.  A valid answer
\* at a step below 7 advances the step by exactly one and adds that
\* answer; an invalid answer leaves step and answers unchanged; 'annuler'
\* removes the wizard and leaves the profile store untouched; a valid
\* answer at step 7 writes exactly one profile and removes the wizard, and
\* no other step (an answer, !new, a message outside a wizard) writes to
\* the profile store.  The wizards of the other users are never touched.
C33_WizardStateMachine ==
    [][LET m == last_message'
           u == m.user
           in_wizard == u \in DOMAIN user_wizards
       IN  /\ OthersUntouched(u)
           /\ \A o \in DOMAIN user_wizards' :
                 /\ user_wizards'[o].step \in 1..7
                 /\ DOMAIN user_wizards'[o].data
                       = {field(i) : i \in 1..(user_wizards'[o].step - 1)}
           /\ (m.content = "!new" \/ ~in_wizard) => StoreUntouched
           /\ (m.content # "!new" /\ ~in_wizard) =>
                 u \notin DOMAIN user_wizards'
           /\ (m.content # "!new" /\ in_wizard) =>
                 LET w == user_wizards[u] IN
                 /\ m.step = w.step
                 /\ IsCancel(m.content) =>
                       u \notin DOMAIN user_wizards' /\ StoreUntouched
                 /\ (~IsCancel(m.content) /\ ~ValidAnswer(w.step, m.content)) =>
                       /\ u \in DOMAIN user_wizards'
                       /\ user_wizards'[u] = w
                       /\ StoreUntouched
                 /\ (ValidAnswer(w.step, m.content) /\ w.step < 7) =>
                       /\ u \in DOMAIN user_wizards'
                       /\ user_wizards'[u].step = w.step + 1
                       /\ \A f \in DOMAIN w.data :
                             user_wizards'[u].data[f] = w.data[f]
                       /\ StoreUntouched
                 /\ (ValidAnswer(w.step, m.content) /\ w.step = 7) =>
                       /\ u \notin DOMAIN user_wizards'
                       /\ OneProfileWritten]_vars

\* a user's valid answer at step 7 has written a profile while the other
\* user waits at a later step of a wizard
C33_Witness ==
    /\ last_message.step = 7
    /\ IsNumber(last_message.content)
    /\ last_message.user \notin DOMAIN user_wizards
    /\ DOMAIN searches = {1}
    /\ \E o \in DOMAIN user_wizards : user_wizards[o].step \in 2..6

(***************************************************************************)
(* monitor.py cycles over several profiles, the totals of main and the     *)
(* notification attempts being followed.                                   *)
(***************************************************************************)
CycleProfiles == 2

CycleAds == 3

InitCycle ==
    /\ ad_price = 0
    /\ market_price = None
    /\ sources = <<>>
    /\ analysis = None
    /\ InitBot
    /\ InitFile
    /\ InitEst
    /\ user_wizards = <<>>
    /\ last_message = NoMessage
    /\ environ = <<>>
    /\ dotenv = IdleDotenv
    /\ cycle = CycleIdle

NextCycle ==
    \/ NoRun /\ Publish(CycleAds)
    \/ NoRun /\ handle_wizard_save(CycleProfiles)
    \/ \E sid \in 1..CycleProfiles : NoRun /\ start_search(sid)
    \/ NoRun /\ main
    \/ \E ok \in BOOLEAN : process_search_fetch(ok, TRUE)
    \/ \E ok \in BOOLEAN : process_search_ad(ok, TRUE)
    \/ process_search_save(TRUE)

SpecCycle == InitCycle /\ [][NextCycle]_vars

(***************************************************************************)
(* Claims about a cycle of monitor.py, checked under SpecCycle.            *)
(***************************************************************************)
RECURSIVE SumOver(_, _)
SumOver(f, S) ==
    IF S = {} THEN 0
    ELSE LET x == CHOOSE y \in S : TRUE IN f[x] + SumOver(f, S \ {x})

\* the totals equal the sums of the results of the profiles of the cycle,
\* every profile has sent <= new and pepites <= new, and a skipped profile
\* contributes zero
TotalsAreSums ==
    cycle.pc = "done" =>
       LET r == cycle.results
           s == Val(cycle.resume)
       IN  /\ DOMAIN r = cycle.active
           /\ s.nouvelles = SumOver([sid \in DOMAIN r |-> r[sid].new], DOMAIN r)
           /\ s.envoyees = SumOver([sid \in DOMAIN r |-> r[sid].sent], DOMAIN r)
           /\ s.pepites = SumOver([sid \in DOMAIN r |-> r[sid].pepites], DOMAIN r)
           /\ \A sid \in DOMAIN r :
                 /\ r[sid].sent <= r[sid].new
                 /\ r[sid].pepites <= r[sid].new
                 /\ r[sid].skip =>
                       r[sid].new = 0 /\ r[sid].sent = 0 /\ r[sid].pepites = 0

\* C34: at the end of a cycle of main the reported totals are the sums
\* over the active profiles of the results of process_search, with
\* sent <= new and pepites <= new for every profile; a profile skipped on
\* a fetch error contributes zero and is reported as skipped, not as
\* processed: the number of processed profiles the summary states does not
\* count it.
C34_TotalsAndSkipped ==
    cycle.pc = "done" =>
       /\ TotalsAreSums
       /\ Val(cycle.resume).traitees =
             Cardinality({sid \in DOMAIN cycle.results :
                             ~cycle.results[sid].skip})

(***************************************************************************)
(* The checks of one active profile on a fetch result that never changes:  *)
(* the periodic monitor_loop and the !check command, every fetch and every *)
(* send succeeding.  The timer of monitor_loop keeps firing and every      *)
(* await of a running coroutine completes (weak fairness); the command is  *)
(* typed whenever the user likes.                                          *)
(***************************************************************************)
LiveAds == 6

LiveKinds ==
    { [price |-> 2000, est |-> Some(3200)],
      [price |-> 0,    est |-> None] }

LiveFetches ==
    UNION { [1..n -> LiveKinds] : n \in 1..LiveAds }

InitLive ==
    /\ ad_price = 0
    /\ market_price = None
    /\ sources = <<>>
    /\ analysis = None
    /\ ads \in LiveFetches
    /\ searches = <<[active |-> TRUE]>>
    /\ next_id = 2
    /\ seen = <<>>
    /\ task = [t \in Tasks |-> IdleTask]
    /\ mon = IdleMon
    /\ notified = {}
    /\ renotified = {}
    /\ lastRun = <<>>
    /\ InitFile
    /\ InitEst
    /\ InitUi
    /\ cycle = CycleOff

NextLive ==
    \/ check_search(1)
    \/ check_search_do_check(TRUE, FALSE)
    \/ monitor_loop(TRUE, FALSE)
    \/ monitor_loop_next(TRUE, FALSE)
    \/ \E t \in Tasks : SendOk(t, FALSE)

FairLive ==
    /\ WF_vars(check_search_do_check(TRUE, FALSE))
    /\ WF_vars(monitor_loop(TRUE, FALSE))
    /\ WF_vars(monitor_loop_next(TRUE, FALSE))
    /\ \A t \in Tasks : WF_vars(SendOk(t, FALSE))

SpecLive == InitLive /\ [][NextLive]_vars /\ FairLive

\* The same with checks that never overlap: a check starts only when no
\* other one is running.
NextLiveSeq ==
    \/ NoRun /\ check_search(1)
    \/ check_search_do_check(TRUE, FALSE)
    \/ NoRun /\ monitor_loop(TRUE, FALSE)
    \/ monitor_loop_next(TRUE, FALSE)
    \/ \E t \in Tasks : SendOk(t, FALSE)

FairLiveSeq ==
    /\ WF_vars(check_search_do_check(TRUE, FALSE))
    /\ WF_vars(NoRun /\ monitor_loop(TRUE, FALSE))
    /\ WF_vars(monitor_loop_next(TRUE, FALSE))
    /\ \A t \in Tasks : WF_vars(SendOk(t, FALSE))

SpecLiveSeq == InitLive /\ [][NextLiveSeq]_vars /\ FairLiveSeq

(***************************************************************************)
(* Claims about repeated checks of an unchanged fetch, checked under       *)
(* SpecLive.                                                               *)
(***************************************************************************)
\* every good deal of the fetch has been individually notified
AllGoodNotified ==
    \A id \in 1..Len(ads) : is_pepite(id) => <<1, id>> \in notified

\* do_check of coroutine t starts in this step, no other check being in
\* progress
Starts(t) ==
    /\ task[t].pc \in {"idle", "send_verif", "sleep_between"}
    /\ task'[t].pc \in SendPcs
    /\ \A o \in Tasks \ {t} : task[o].pc = "idle"

\* the check with locals l will send a listing
EmitsListing(l) ==
    \/ l.pepites # <<>>
    \/ \E i \in 1..Min(5, Len(l.normal_ads)) : ~l.normal_ads[i].market

\* the fetch holds a good deal
HasGoodDeal == \E id \in 1..Len(ads) : is_pepite(id)

\* once every good deal of a fetch that holds one has been notified, a
\* check that starts while no other check runs finds nothing to notify
QuietAfterAllGood ==
    [][\A t \in Tasks :
          (HasGoodDeal /\ AllGoodNotified /\ Starts(t)) =>
              ~EmitsListing(task'[t])]_vars

\* C38: on an unchanged fetch that holds a good deal, with checks that
\* keep completing, every good deal is eventually individually notified
\* (those beyond the cap by later checks), and once they all are, a check
\* that starts (no other check being in progress) emits no listing
\* notification.
C38_GoodDealsEventuallyNotified ==
    /\ <>AllGoodNotified
    /\ QuietAfterAllGood

(***************************************************************************)
(* Runs of one profile that never overlap, !check commands and monitor.py  *)
(* cycles, with any send or fetch failure; what process_search returns is  *)
(* followed.                                                               *)
(***************************************************************************)
NoNewAds == 3

InitNoNew ==
    /\ ad_price = 0
    /\ market_price = None
    /\ sources = <<>>
    /\ analysis = None
    /\ ads = <<>>
    /\ searches = <<[active |-> FALSE]>>
    /\ next_id = 2
    /\ seen = <<>>
    /\ task = [t \in Tasks |-> IdleTask]
    /\ mon = IdleMon
    /\ notified = {}
    /\ renotified = {}
    /\ lastRun = <<>>
    /\ InitFile
    /\ InitEst
    /\ user_wizards = <<>>
    /\ last_message = NoMessage
    /\ environ = <<>>
    /\ dotenv = IdleDotenv
    /\ cycle = CycleIdle

NextNoNew ==
    \/ NoRun /\ Publish(NoNewAds)
    \/ \E sid \in DOMAIN searches : NoRun /\ start_search(sid)
    \/ \E sid \in DOMAIN searches : NoRun /\ check_search(sid)
    \/ \E ok \in BOOLEAN : check_search_do_check(ok, FALSE)
    \/ SendOk("cmd", FALSE)
    \/ SendFail("cmd", FALSE)
    \/ NoRun /\ main
    \/ \E ok \in BOOLEAN : process_search_fetch(ok, FALSE)
    \/ \E ok \in BOOLEAN : process_search_ad(ok, FALSE)
    \/ process_search_save(FALSE)

SpecNoNew == InitNoNew /\ [][NextNoNew]_vars

(***************************************************************************)
(* Claims about a run that finds nothing new, checked under SpecNoNew.     *)
(***************************************************************************)
\* every listing of the fetch is in the seen store of the profile
NothingNew(sid) ==
    \A id \in 1..Len(ads) : sid \in DOMAIN seen /\ id \in seen[sid]

\* the check of the command has fetched and found nothing new
QuietCheck ==
    /\ task["cmd"].pc \in {"send_none", "send_error"}
    /\ ~task["cmd"].fetch_failed
    /\ NothingNew(task["cmd"].sid)

\* C39: a run whose fetch succeeds and holds no listing outside the seen
\* set writes nothing.  process_search returns (0, 0, 0) without a
\* notification attempt; do_check goes straight to the 'no new listing'
\* message, which is its only message (but for the error report when that
\* send raises) and after which it ends; in both the seen store and the
\* history of the notifications are left as they were.
C39_NothingNewWritesNothing ==
    [][/\ (mon.pc = "sleep" /\ mon' # mon /\ NothingNew(mon.sid)) =>
             /\ mon'.pc # "ad"
             /\ mon.sid \in DOMAIN cycle'.results
             /\ cycle'.results[mon.sid].new = 0
             /\ cycle'.results[mon.sid].sent = 0
             /\ cycle'.results[mon.sid].pepites = 0
             /\ cycle'.attempts = cycle.attempts
             /\ seen' = seen /\ notified' = notified
       /\ (task["cmd"].pc = "send_verif" /\ task'["cmd"].pc # "send_verif"
              /\ ~task'["cmd"].fetch_failed /\ task'["cmd"].pc # "idle"
              /\ NothingNew(task["cmd"].sid)) =>
             /\ task'["cmd"].pc = "send_none"
             /\ seen' = seen /\ notified' = notified
       /\ (QuietCheck /\ task'["cmd"] # task["cmd"]) =>
             /\ task'["cmd"].pc \in {"idle", "send_error"}
             /\ task["cmd"].pc = "send_error" => task'["cmd"].pc = "idle"
             /\ seen' = seen /\ notified' = notified]_vars

\* a cycle of monitor.py has returned (0, 0, 0) for a fetch of listings
\* that were all seen, and a check of the command on the same listings is
\* at its 'no new listing' message
C39_Witness ==
    /\ Len(ads) >= 1
    /\ task["cmd"].pc = "send_none"
    /\ NothingNew(1)
    /\ cycle.pc = "done"
    /\ cycle.results[1] = [new |-> 0, sent |-> 0, pepites |-> 0, skip |-> FALSE]

(***************************************************************************)
(* monitor.py cycles on one profile with enough listings to pass a cap of  *)
(* 5, good deals and listings without price in any order; the             *)
(* notification attempts are followed.                                     *)
(***************************************************************************)
AttemptAds == 6

NextAttempts ==
    \/ NoRun /\ PublishOf(AttemptAds, LiveKinds)
    \/ \E sid \in DOMAIN searches : NoRun /\ start_search(sid)
    \/ NoRun /\ main
    \/ \E ok \in BOOLEAN : process_search_fetch(ok, TRUE)
    \/ \E ok \in BOOLEAN : process_search_ad(ok, TRUE)
    \/ process_search_save(TRUE)

SpecAttempts == InitNoNew /\ [][NextAttempts]_vars

(***************************************************************************)
(* Claims about the attempts of process_search, checked under              *)
(* SpecAttempts.                                                           *)
(***************************************************************************)
\* the listings of the fetch that are not in the seen store, in fetch order
NewInFetchOrder(sid) ==
    SelectSeq(FetchResult, LAMBDA id : id \notin load_seen_ads(sid))

\* the attempts of the cycle for the profile, in the order they were made
AttemptsOf(sid) ==
    LET mine == SelectSeq(cycle.attempts, LAMBDA a : a[1] = sid) IN
    [i \in 1..Len(mine) |-> mine[i][2]]

\* C40: process_search makes one notification attempt per new listing, in
\* fetch order, with no cap and no tier ordering, and adds the id to the
\* seen set right after the attempt: while it runs, the attempts made are
\* the first listings of the new ones in fetch order, the seen set is the
\* loaded one plus exactly the attempted ids, and when the loop is over
\* the attempts are all the new listings, however many.
C40_OneAttemptPerNewListing ==
    mon.pc \in {"ad", "save"} =>
        LET new == NewInFetchOrder(mon.sid)
            done == AttemptsOf(mon.sid)
        IN /\ mon.new_ads = new
           /\ Len(done) <= Len(new)
           /\ done = SubSeq(new, 1, Len(done))
           /\ mon.seen_ids =
                 load_seen_ads(mon.sid) \cup {done[i] : i \in 1..Len(done)}
           /\ mon.pc = "ad" => Len(done) = mon.k - 1
           /\ mon.pc = "save" => done = new
           /\ mon.success_count <= Len(done)

\* six new listings, a good deal after a listing of the normal tier, have
\* all been attempted, one attempt having failed
C40_Witness ==
    /\ mon.pc = "save"
    /\ Len(mon.new_ads) = 6
    /\ AttemptsOf(mon.sid) = <<6, 5, 4, 3, 2, 1>>
    /\ ads[6].price = 0
    /\ ads[5].price = 2000
    /\ mon.success_count = 5
====
